---- MODULE Spec2Model ----
(***************************************************************************)
(* Secret Store runtime module (frame/secret-store): the key server set    *)
(* with migration, the response-aggregation engine (service.rs) and the    *)
(* four services built on it.  Every dispatchable call of lib.rs is one    *)
(* action; the service functions are operators over the storage items      *)
(* they read and write.                                                    *)
(*                                                                         *)
(* Encoding.  u8 arithmetic wraps modulo 256 (the runtime is built in      *)
(* release mode, without overflow checks).  A KeyServersMask is the set    *)
(* of the indices whose bit is set.  Option<T> is <<>> (None) or <<x>>     *)
(* (Some(x)).  H512 values are small integers, 0 being H512::default().    *)
(* Network addresses are left out.  An account and the entity id it has   *)
(* claimed are the same integer; balances count units of the currency.    *)
(***************************************************************************)
EXTENDS Integers, Sequences, FiniteSets, TLC

\* ---------------------------------------------------------------- bounds
\* Key servers that may ever be added to a set by the owner.
NumServers == 3
\* Key servers the owner may add while the set is initialized.
NumMigrationServers == 2
\* Largest key server set the owner builds.
MaxKeyServers == 2
\* Size of the largest genesis key server set.
MaxGenesis == 5
\* Distinct non-default server key publics / common points reported.
NumPublics == 2
\* Largest threshold value reported (besides the invalid threshold).
MaxThreshold == 1
\* Distinct migration ids.
NumMigrationIds == 1
\* Highest block number reached.
MaxBlock == 2
\* Distinct server key ids requested.
NumKeys == 1
\* Distinct document key points and decrypted secrets.
NumSecrets == 1
\* Size of the largest genesis key server set of the server key retrieval
\* and of the document key shadow retrieval runs.
MaxRetrievalGenesis == 4
MaxShadowGenesis == 3
\* Key ids of a run that fills the lists of pending requests: one more than
\* the longest list may hold.
MaxQueueKeys == 9
\* Key servers of the largest genesis set of a run with fees.
MaxFeeGenesis == 2
\* The fee of every service in a run with fees, in units of the currency.
ServiceFee == 3
\* Largest balance a requester holds at the genesis of a run with fees.
MaxFunds == 4
\* Key servers that are offered to a full set.
NumSpareServers == 2
\* Free indices of a set the owner removes key servers of.
MaxHoles == 1

\* ------------------------------------------------------------- constants
OWNER == 1
REQUESTER1 == 2
REQUESTER2 == 3
KEY_SERVER0 == 100
INVALID_THRESHOLD == 255
U8Modulus == 256
HalfMask == 128
\* The indices of a KeyServersMask: two words of 128 bits.
SlotCount == 256

AllKeyServerIds == KEY_SERVER0 .. (KEY_SERVER0 + MaxGenesis - 1)
AddableKeyServerIds == KEY_SERVER0 .. (KEY_SERVER0 + NumServers - 1)
MigrationKeyServerIds == KEY_SERVER0 .. (KEY_SERVER0 + NumMigrationServers - 1)
Accounts == AllKeyServerIds \cup {OWNER, REQUESTER1}
\* The accounts that are given funds at genesis.
FeePayers == {OWNER, REQUESTER1}
\* Every account that holds a balance.
Holders == Accounts \cup {REQUESTER2}
\* ClaimedId at genesis: every account but REQUESTER2 has claimed an id.
Claimed == Accounts
ExistentialDeposit == 1
ServerKeyIds == 1 .. NumKeys
Publics == 0 .. NumPublics
Thresholds == (0 .. MaxThreshold) \cup {INVALID_THRESHOLD}
MigrationIds == 1 .. NumMigrationIds
\* The ids given to confirm_migration: those of the migrations and one that
\* no migration has.
ConfirmedMigrationIds == 1 .. (NumMigrationIds + 1)

None == << >>
Some(x) == << x >>
IsSome(o) == o # << >>
Unwrap(o) == o[1]

U8(x) == ((x % U8Modulus) + U8Modulus) % U8Modulus

\* ------------------------------------------------------- KeyServersMask
from_index(index) == {index}
is_set(mask, index) == index \in mask
union(mask, other) == mask \cup other
Lowest(S) == CHOOSE x \in S : \A y \in S : x <= y
\* Faulty variant of lowest_unoccupied_index: the high word is searched
\* from its second bit.
lowest_unoccupied_index_skipping(mask) ==
    LET low == {idx \in 0 .. (HalfMask - 1) : ~ is_set(mask, idx)}
        high == {idx \in 1 .. (HalfMask - 1) : ~ is_set(mask, HalfMask + idx)}
    IN IF low # {} THEN Some(Lowest(low))
       ELSE IF high # {} THEN Some(HalfMask + Lowest(high))
       ELSE None

lowest_unoccupied_index(mask) ==
    LET low == {idx \in 0 .. (HalfMask - 1) : ~ is_set(mask, idx)}
        high == {idx \in 0 .. (HalfMask - 1) : ~ is_set(mask, HalfMask + idx)}
    IN IF low # {} THEN Some(Lowest(low))
       ELSE IF high # {} THEN Some(HalfMask + Lowest(high))
       ELSE None

VARIABLES
    IsInitialized,
    CurrentSetChangeBlock,
    CurrentKeyServers,
    MigrationKeyServers,
    NewKeyServers,
    MigrationId,
    MigrationConfirmations,
    block_number,
    ServerKeyGenerationRequestsKeys,
    ServerKeyGenerationRequests,
    ServerKeyGenerationResponses,
    DocumentKeyStoreRequestsKeys,
    DocumentKeyStoreRequests,
    DocumentKeyStoreResponses,
    ServerKeyRetrievalRequestsKeys,
    ServerKeyRetrievalRequests,
    ServerKeyRetrievalResponses,
    ServerKeyRetrievalThresholdResponses,
    DocumentKeyShadowRetrievalRequestsKeys,
    DocumentKeyShadowRetrievalRequests,
    DocumentKeyShadowRetrievalCommonResponses,
    DocumentKeyShadowRetrievalPersonalResponses,
    events,
    balances,
    Fees,
    key_servers_iter,
    votes,
    outcome,
    ideal

setVars == << IsInitialized, CurrentSetChangeBlock, CurrentKeyServers,
              MigrationKeyServers, NewKeyServers, MigrationId,
              MigrationConfirmations >>
genVars == << ServerKeyGenerationRequestsKeys, ServerKeyGenerationRequests,
              ServerKeyGenerationResponses >>
storeVars == << DocumentKeyStoreRequestsKeys, DocumentKeyStoreRequests,
                DocumentKeyStoreResponses >>
retrievalVars == << ServerKeyRetrievalRequestsKeys, ServerKeyRetrievalRequests,
                    ServerKeyRetrievalResponses, ServerKeyRetrievalThresholdResponses >>
shadowVars == << DocumentKeyShadowRetrievalRequestsKeys,
                 DocumentKeyShadowRetrievalRequests,
                 DocumentKeyShadowRetrievalCommonResponses,
                 DocumentKeyShadowRetrievalPersonalResponses >>
taskVars == << genVars, storeVars, retrievalVars, shadowVars >>
\* History, not storage.
\*   votes[task][id]    the first report each key server has delivered for
\*                      the request while it was undecided, since it was
\*                      submitted and since the last migration was completed;
\*   outcome[task][id]  << "None" >> before the first submission, then
\*                      << "Pending" >> until the first terminal notification
\*                      << "Success", value >> or << "Failure" >>;
\*   ideal              the storage of the service and the outcome of its
\*                      request as they would be had no key server repeated
\*                      a report.
histVars == << votes, outcome, ideal >>
\* balances[account]   the free balance of the account (pallet_balances);
\* Fees[task]          the fee of a request of the service, set at genesis;
\* key_servers_iter    the key server ids in the order in which
\*                     CurrentKeyServers::iter() yields them (the order of
\*                     the hashes of the ids), never changed.
feeVars == << balances, Fees, key_servers_iter >>
vars == << setVars, block_number, taskVars, events, feeVars, histVars >>

\* ------------------------------------------------ key server set storage
\* A set is a function from the ids of its servers to their indices.
EmptySet == [id \in {} |-> 0]
contains(set, id) == id \in DOMAIN set
existing_servers_mask(set) == {set[id] : id \in DOMAIN set}
CanAppend(set, id) ==
    /\ ~ contains(set, id)
    /\ IsSome(lowest_unoccupied_index(existing_servers_mask(set)))
append(set, id) ==
    [k \in DOMAIN set \cup {id} |->
        IF k = id THEN Unwrap(lowest_unoccupied_index(existing_servers_mask(set)))
        ELSE set[k]]
remove(set, id) == [k \in DOMAIN set \ {id} |-> set[k]]
RECURSIVE fill(_, _)
fill(set, key_servers) ==
    IF key_servers = << >> THEN set
    ELSE fill(append(set, Head(key_servers)), Tail(key_servers))

ensure_can_modify(caller) == caller = OWNER
resolve_key_server_id(caller) == caller
\* Option<EntityId>: the id the account has claimed.
resolve_entity_id(origin) == IF origin \in Claimed THEN Some(origin) ELSE None

\* events: the events deposited by the last call.
\* No call of the key server set moves funds.
Ok(evs) == events' = evs /\ UNCHANGED feeVars
\* A failed call deposits no event.
Err == events' = << >> /\ UNCHANGED feeVars

Event(name, id, a, b) == [name |-> name, id |-> id, a |-> a, b |-> b]

\* ------------------------------------------------------ key_server_set.rs
complete_initialization(caller) ==
    /\ UNCHANGED << CurrentSetChangeBlock, CurrentKeyServers, MigrationKeyServers,
                    NewKeyServers, MigrationId, MigrationConfirmations >>
    /\ IF ~ IsInitialized /\ ensure_can_modify(caller)
       THEN IsInitialized' = TRUE /\ Ok(<< >>)
       ELSE UNCHANGED IsInitialized /\ Err

\* Faulty variant of add_key_server: the key server is appended to the
\* current set also when the initialization is completed.
add_key_server_to_both_sets(caller, id) ==
    /\ UNCHANGED << IsInitialized, CurrentSetChangeBlock, MigrationKeyServers,
                    MigrationId, MigrationConfirmations >>
    /\ IF ~ ensure_can_modify(caller) \/ ~ CanAppend(CurrentKeyServers, id)
       THEN UNCHANGED << CurrentKeyServers, NewKeyServers >> /\ Err
       ELSE /\ CurrentKeyServers' = append(CurrentKeyServers, id)
            /\ IF CanAppend(NewKeyServers, id)
               THEN /\ NewKeyServers' = append(NewKeyServers, id)
                    /\ Ok(<< Event("KeyServerAdded", id, 0, 0) >>)
               ELSE UNCHANGED NewKeyServers /\ Err

add_key_server(caller, id) ==
    /\ UNCHANGED << IsInitialized, CurrentSetChangeBlock, MigrationKeyServers,
                    MigrationId, MigrationConfirmations >>
    /\ IF ~ ensure_can_modify(caller)
          \/ (~ IsInitialized /\ ~ CanAppend(CurrentKeyServers, id))
       THEN UNCHANGED << CurrentKeyServers, NewKeyServers >> /\ Err
       ELSE /\ CurrentKeyServers' = IF ~ IsInitialized
                                    THEN append(CurrentKeyServers, id)
                                    ELSE CurrentKeyServers
            /\ IF CanAppend(NewKeyServers, id)
               THEN /\ NewKeyServers' = append(NewKeyServers, id)
                    /\ Ok(<< Event("KeyServerAdded", id, 0, 0) >>)
               ELSE UNCHANGED NewKeyServers /\ Err

remove_key_server(caller, id) ==
    /\ UNCHANGED << IsInitialized, CurrentSetChangeBlock, MigrationKeyServers,
                    MigrationId, MigrationConfirmations >>
    /\ IF ~ ensure_can_modify(caller)
          \/ (~ IsInitialized /\ ~ contains(CurrentKeyServers, id))
       THEN UNCHANGED << CurrentKeyServers, NewKeyServers >> /\ Err
       ELSE /\ CurrentKeyServers' = IF ~ IsInitialized
                                    THEN remove(CurrentKeyServers, id)
                                    ELSE CurrentKeyServers
            /\ IF contains(NewKeyServers, id)
               THEN /\ NewKeyServers' = remove(NewKeyServers, id)
                    /\ Ok(<< Event("KeyServerRemoved", id, 0, 0) >>)
               ELSE UNCHANGED NewKeyServers /\ Err

CanStartMigration(caller) ==
    /\ MigrationId = None
    /\ DOMAIN NewKeyServers # {}
    /\ CurrentKeyServers # NewKeyServers
    /\ \/ contains(CurrentKeyServers, resolve_key_server_id(caller))
       \/ contains(NewKeyServers, resolve_key_server_id(caller))

\* Faulty variant of start_migration: the caller is not looked up in the
\* sets.
start_migration_by_anyone(caller, migration_id) ==
    /\ UNCHANGED << IsInitialized, CurrentSetChangeBlock, CurrentKeyServers,
                    NewKeyServers, MigrationConfirmations >>
    /\ IF MigrationId = None /\ DOMAIN NewKeyServers # {}
                             /\ CurrentKeyServers # NewKeyServers
       THEN /\ MigrationKeyServers' = NewKeyServers
            /\ MigrationId' = Some(<< migration_id, resolve_key_server_id(caller) >>)
            /\ Ok(<< Event("MigrationStarted", 0, 0, 0) >>)
       ELSE UNCHANGED << MigrationKeyServers, MigrationId >> /\ Err

start_migration(caller, migration_id) ==
    /\ UNCHANGED << IsInitialized, CurrentSetChangeBlock, CurrentKeyServers,
                    NewKeyServers, MigrationConfirmations >>
    /\ IF CanStartMigration(caller)
       THEN /\ MigrationKeyServers' = NewKeyServers
            /\ MigrationId' = Some(<< migration_id, resolve_key_server_id(caller) >>)
            /\ Ok(<< Event("MigrationStarted", 0, 0, 0) >>)
       ELSE UNCHANGED << MigrationKeyServers, MigrationId >> /\ Err

ensure_migration(migration_id) ==
    IsSome(MigrationId) /\ Unwrap(MigrationId)[1] = migration_id
is_migration_confirmed(id) == id \in MigrationConfirmations
\* Faulty variant of CanConfirmMigration: the id of the migration is not
\* compared.
CanConfirmMigration_any_id(caller, migration_id) ==
    /\ IsSome(MigrationId)
    /\ contains(MigrationKeyServers, resolve_key_server_id(caller))
    /\ ~ is_migration_confirmed(resolve_key_server_id(caller))

CanConfirmMigration(caller, migration_id) ==
    /\ ensure_migration(migration_id)
    /\ contains(MigrationKeyServers, resolve_key_server_id(caller))
    /\ ~ is_migration_confirmed(resolve_key_server_id(caller))

\* confirm_migration, were it to wait for the key servers of the new set
\* as well.
confirm_migration_waiting_for_new_set(caller, migration_id) ==
    /\ UNCHANGED << IsInitialized, NewKeyServers >>
    /\ IF ~ CanConfirmMigration(caller, migration_id)
       THEN /\ UNCHANGED << CurrentSetChangeBlock, CurrentKeyServers,
                            MigrationKeyServers, MigrationId, MigrationConfirmations >>
            /\ Err
       ELSE LET confirmed == MigrationConfirmations \cup {resolve_key_server_id(caller)}
                has_all_confirmations ==
                    \A id \in DOMAIN MigrationKeyServers \cup DOMAIN NewKeyServers :
                        id \in confirmed
            IN IF ~ has_all_confirmations
               THEN /\ MigrationConfirmations' = confirmed
                    /\ UNCHANGED << CurrentSetChangeBlock, CurrentKeyServers,
                                    MigrationKeyServers, MigrationId >>
                    /\ Ok(<< >>)
               ELSE /\ MigrationConfirmations' = confirmed \ DOMAIN MigrationKeyServers
                    /\ CurrentKeyServers' = MigrationKeyServers
                    /\ MigrationKeyServers' = EmptySet
                    /\ CurrentSetChangeBlock' = block_number
                    /\ MigrationId' = None
                    /\ Ok(<< Event("MigrationCompleted", 0, 0, 0) >>)

confirm_migration(caller, migration_id) ==
    /\ UNCHANGED << IsInitialized, NewKeyServers >>
    /\ IF ~ CanConfirmMigration(caller, migration_id)
       THEN /\ UNCHANGED << CurrentSetChangeBlock, CurrentKeyServers,
                            MigrationKeyServers, MigrationId, MigrationConfirmations >>
            /\ Err
       ELSE LET confirmed == MigrationConfirmations \cup {resolve_key_server_id(caller)}
                has_all_confirmations ==
                    \A id \in DOMAIN MigrationKeyServers : id \in confirmed
            IN IF ~ has_all_confirmations
               THEN /\ MigrationConfirmations' = confirmed
                    /\ UNCHANGED << CurrentSetChangeBlock, CurrentKeyServers,
                                    MigrationKeyServers, MigrationId >>
                    /\ Ok(<< >>)
               ELSE /\ MigrationConfirmations' = confirmed \ DOMAIN MigrationKeyServers
                    /\ CurrentKeyServers' = MigrationKeyServers
                    /\ MigrationKeyServers' = EmptySet
                    /\ CurrentSetChangeBlock' = block_number
                    /\ MigrationId' = None
                    /\ Ok(<< Event("MigrationCompleted", 0, 0, 0) >>)

\* The host starts the next block.
next_block ==
    /\ block_number < MaxBlock
    /\ block_number' = block_number + 1
    /\ Ok(<< >>)

\* ------------------------------------------------------------ service.rs
new_responses ==
    [ key_servers_change_block |-> CurrentSetChangeBlock,
      responded_key_servers_mask |-> {},
      responded_key_servers_count |-> 0,
      max_response_support |-> 0 ]

key_servers_count == U8(Cardinality(DOMAIN CurrentKeyServers))

\* Option<u8>: the index of the key server the calling account has claimed.
key_server_index_from_origin(origin) ==
    IF contains(CurrentKeyServers, origin) THEN Some(CurrentKeyServers[origin]) ELSE None

\* The support table of one request: the entries of the ResponsesSupport
\* double map under the key of the request.  A missing entry reads as 0.
NoSupport == [v \in {} |-> 0]
support(table, response) == IF response \in DOMAIN table THEN table[response] ELSE 0

\* responses: the Responses of the request; support: the request's prefix of
\* the ResponsesSupport map.  The result holds both as the call leaves them.
\* Faulty variant of insert_response: one supporter more than threshold + 1
\* is asked for.
insert_response_one_more(key_server_index, threshold, responses, table, response) ==
    LET stale == /\ responses.responded_key_servers_count # 0
                 /\ responses.key_servers_change_block # CurrentSetChangeBlock
        r1 == IF stale
              THEN [ key_servers_change_block |-> CurrentSetChangeBlock,
                     responded_key_servers_mask |-> {},
                     responded_key_servers_count |-> 0,
                     max_response_support |-> 0 ]
              ELSE [responses EXCEPT !.key_servers_change_block = CurrentSetChangeBlock]
        s1 == IF stale THEN NoSupport ELSE table
        updated_responded_key_servers_mask ==
            union(r1.responded_key_servers_mask, from_index(key_server_index))
    IN IF updated_responded_key_servers_mask = r1.responded_key_servers_mask
       THEN [support_result |-> "Unconfirmed", responses |-> r1, support |-> s1]
       ELSE
        LET response_support == U8(support(s1, response) + 1)
            s2 == [v \in DOMAIN s1 \cup {response} |->
                     IF v = response THEN response_support ELSE s1[v]]
            count == U8(r1.responded_key_servers_count + 1)
            is_max == response_support >= r1.max_response_support
            max_support == IF is_max THEN response_support ELSE r1.max_response_support
            r2 == [ key_servers_change_block |-> r1.key_servers_change_block,
                    responded_key_servers_mask |-> updated_responded_key_servers_mask,
                    responded_key_servers_count |-> count,
                    max_response_support |-> max_support ]
            key_servers_left == U8(key_servers_count - count)
        IN IF is_max /\ threshold < U8(response_support - 1)
           THEN [support_result |-> "Confirmed", responses |-> r2, support |-> s2]
           ELSE IF threshold > U8(U8(max_support + key_servers_left) - 1)
           THEN [support_result |-> "Impossible", responses |-> r2, support |-> s2]
           ELSE [support_result |-> "Unconfirmed", responses |-> r2, support |-> s2]

\* Faulty variant of insert_response: the servers that have responded are
\* not subtracted from the servers left.
insert_response_all_left(key_server_index, threshold, responses, table, response) ==
    LET stale == /\ responses.responded_key_servers_count # 0
                 /\ responses.key_servers_change_block # CurrentSetChangeBlock
        r1 == IF stale
              THEN [ key_servers_change_block |-> CurrentSetChangeBlock,
                     responded_key_servers_mask |-> {},
                     responded_key_servers_count |-> 0,
                     max_response_support |-> 0 ]
              ELSE [responses EXCEPT !.key_servers_change_block = CurrentSetChangeBlock]
        s1 == IF stale THEN NoSupport ELSE table
        updated_responded_key_servers_mask ==
            union(r1.responded_key_servers_mask, from_index(key_server_index))
    IN IF updated_responded_key_servers_mask = r1.responded_key_servers_mask
       THEN [support_result |-> "Unconfirmed", responses |-> r1, support |-> s1]
       ELSE
        LET response_support == U8(support(s1, response) + 1)
            s2 == [v \in DOMAIN s1 \cup {response} |->
                     IF v = response THEN response_support ELSE s1[v]]
            count == U8(r1.responded_key_servers_count + 1)
            is_max == response_support >= r1.max_response_support
            max_support == IF is_max THEN response_support ELSE r1.max_response_support
            r2 == [ key_servers_change_block |-> r1.key_servers_change_block,
                    responded_key_servers_mask |-> updated_responded_key_servers_mask,
                    responded_key_servers_count |-> count,
                    max_response_support |-> max_support ]
            key_servers_left == key_servers_count
        IN IF is_max /\ threshold <= U8(response_support - 1)
           THEN [support_result |-> "Confirmed", responses |-> r2, support |-> s2]
           ELSE IF threshold > U8(U8(max_support + key_servers_left) - 1)
           THEN [support_result |-> "Impossible", responses |-> r2, support |-> s2]
           ELSE [support_result |-> "Unconfirmed", responses |-> r2, support |-> s2]

\* Faulty variant of insert_response: a report of a key server that has
\* reported already is counted again.
insert_response_counting_repeated(key_server_index, threshold, responses, table, response) ==
    LET stale == /\ responses.responded_key_servers_count # 0
                 /\ responses.key_servers_change_block # CurrentSetChangeBlock
        r1 == IF stale
              THEN [ key_servers_change_block |-> CurrentSetChangeBlock,
                     responded_key_servers_mask |-> {},
                     responded_key_servers_count |-> 0,
                     max_response_support |-> 0 ]
              ELSE [responses EXCEPT !.key_servers_change_block = CurrentSetChangeBlock]
        s1 == IF stale THEN NoSupport ELSE table
        updated_responded_key_servers_mask ==
            union(r1.responded_key_servers_mask, from_index(key_server_index))
    IN IF FALSE
       THEN [support_result |-> "Unconfirmed", responses |-> r1, support |-> s1]
       ELSE
        LET response_support == U8(support(s1, response) + 1)
            s2 == [v \in DOMAIN s1 \cup {response} |->
                     IF v = response THEN response_support ELSE s1[v]]
            count == U8(r1.responded_key_servers_count + 1)
            is_max == response_support >= r1.max_response_support
            max_support == IF is_max THEN response_support ELSE r1.max_response_support
            r2 == [ key_servers_change_block |-> r1.key_servers_change_block,
                    responded_key_servers_mask |-> updated_responded_key_servers_mask,
                    responded_key_servers_count |-> count,
                    max_response_support |-> max_support ]
            key_servers_left == U8(key_servers_count - count)
        IN IF is_max /\ threshold <= U8(response_support - 1)
           THEN [support_result |-> "Confirmed", responses |-> r2, support |-> s2]
           ELSE IF threshold > U8(U8(max_support + key_servers_left) - 1)
           THEN [support_result |-> "Impossible", responses |-> r2, support |-> s2]
           ELSE [support_result |-> "Unconfirmed", responses |-> r2, support |-> s2]

\* Faulty variant of insert_response: a response is confirmed also when its
\* support is below the largest support on record.
insert_response_of_any_support(key_server_index, threshold, responses, table, response) ==
    LET stale == /\ responses.responded_key_servers_count # 0
                 /\ responses.key_servers_change_block # CurrentSetChangeBlock
        r1 == IF stale
              THEN [ key_servers_change_block |-> CurrentSetChangeBlock,
                     responded_key_servers_mask |-> {},
                     responded_key_servers_count |-> 0,
                     max_response_support |-> 0 ]
              ELSE [responses EXCEPT !.key_servers_change_block = CurrentSetChangeBlock]
        s1 == IF stale THEN NoSupport ELSE table
        updated_responded_key_servers_mask ==
            union(r1.responded_key_servers_mask, from_index(key_server_index))
    IN IF updated_responded_key_servers_mask = r1.responded_key_servers_mask
       THEN [support_result |-> "Unconfirmed", responses |-> r1, support |-> s1]
       ELSE
        LET response_support == U8(support(s1, response) + 1)
            s2 == [v \in DOMAIN s1 \cup {response} |->
                     IF v = response THEN response_support ELSE s1[v]]
            count == U8(r1.responded_key_servers_count + 1)
            is_max == response_support >= r1.max_response_support
            max_support == IF is_max THEN response_support ELSE r1.max_response_support
            r2 == [ key_servers_change_block |-> r1.key_servers_change_block,
                    responded_key_servers_mask |-> updated_responded_key_servers_mask,
                    responded_key_servers_count |-> count,
                    max_response_support |-> max_support ]
            key_servers_left == U8(key_servers_count - count)
        IN IF threshold <= U8(response_support - 1)
           THEN [support_result |-> "Confirmed", responses |-> r2, support |-> s2]
           ELSE IF threshold > U8(U8(max_support + key_servers_left) - 1)
           THEN [support_result |-> "Impossible", responses |-> r2, support |-> s2]
           ELSE [support_result |-> "Unconfirmed", responses |-> r2, support |-> s2]

insert_response(key_server_index, threshold, responses, table, response) ==
    LET stale == /\ responses.responded_key_servers_count # 0
                 /\ responses.key_servers_change_block # CurrentSetChangeBlock
        r1 == IF stale
              THEN [ key_servers_change_block |-> CurrentSetChangeBlock,
                     responded_key_servers_mask |-> {},
                     responded_key_servers_count |-> 0,
                     max_response_support |-> 0 ]
              ELSE [responses EXCEPT !.key_servers_change_block = CurrentSetChangeBlock]
        s1 == IF stale THEN NoSupport ELSE table
        updated_responded_key_servers_mask ==
            union(r1.responded_key_servers_mask, from_index(key_server_index))
    IN IF updated_responded_key_servers_mask = r1.responded_key_servers_mask
       THEN [support_result |-> "Unconfirmed", responses |-> r1, support |-> s1]
       ELSE
        LET response_support == U8(support(s1, response) + 1)
            s2 == [v \in DOMAIN s1 \cup {response} |->
                     IF v = response THEN response_support ELSE s1[v]]
            count == U8(r1.responded_key_servers_count + 1)
            is_max == response_support >= r1.max_response_support
            max_support == IF is_max THEN response_support ELSE r1.max_response_support
            r2 == [ key_servers_change_block |-> r1.key_servers_change_block,
                    responded_key_servers_mask |-> updated_responded_key_servers_mask,
                    responded_key_servers_count |-> count,
                    max_response_support |-> max_support ]
            key_servers_left == U8(key_servers_count - count)
        IN IF is_max /\ threshold <= U8(response_support - 1)
           THEN [support_result |-> "Confirmed", responses |-> r2, support |-> s2]
           ELSE IF threshold > U8(U8(max_support + key_servers_left) - 1)
           THEN [support_result |-> "Impossible", responses |-> r2, support |-> s2]
           ELSE [support_result |-> "Unconfirmed", responses |-> r2, support |-> s2]

\* Faulty variant of is_response_required: the block of the last change of
\* the set is not compared.
is_response_required_in_any_epoch(key_server, responses) ==
    /\ contains(CurrentKeyServers, key_server)
    /\ ~ is_set(responses.responded_key_servers_mask, CurrentKeyServers[key_server])

is_response_required(key_server, responses) ==
    /\ contains(CurrentKeyServers, key_server)
    /\ \/ CurrentSetChangeBlock # responses.key_servers_change_block
       \/ ~ is_set(responses.responded_key_servers_mask, CurrentKeyServers[key_server])

\* Currency::transfer with ExistenceRequirement::AllowDeath.
transfer(bal, source, dest, value) ==
    IF value = 0 \/ source = dest THEN Some(bal)
    ELSE IF bal[source] < value THEN None
    ELSE IF bal[dest] + value < ExistentialDeposit THEN None
    ELSE Some([bal EXCEPT ![source] = @ - value, ![dest] = @ + value])

\* The loop of collect_service_fee and the transfer that follows it: a
\* share to every account but the last, the rest of the fee to the last.
\* The transfers made before one fails are kept.
RECURSIVE transfer_shares(_, _, _, _, _)
transfer_shares(bal, origin, key_servers_accounts, key_server_fee_share, fee_rest) ==
    IF Len(key_servers_accounts) = 1
    THEN LET last == transfer(bal, origin, key_servers_accounts[1], fee_rest)
         IN IF IsSome(last)
            THEN [result |-> "Ok", balances |-> Unwrap(last)]
            ELSE [result |-> "Err", balances |-> bal]
    ELSE LET next == transfer(bal, origin, key_servers_accounts[1], key_server_fee_share)
         IN IF IsSome(next)
            THEN transfer_shares(Unwrap(next), origin, Tail(key_servers_accounts),
                                 key_server_fee_share, fee_rest - key_server_fee_share)
            ELSE [result |-> "Err", balances |-> bal]

\* Every key server id of the model is claimed by the account of the same
\* number.  Without key servers the division by key_servers_count panics.
collect_service_fee(origin, fee) ==
    LET key_servers_accounts ==
            SelectSeq(key_servers_iter, LAMBDA id : contains(CurrentKeyServers, id))
        count == U8(Len(key_servers_accounts))
    IN IF count = 0
       THEN [result |-> "Panic", balances |-> balances]
       ELSE transfer_shares(balances, origin, key_servers_accounts,
                            fee \div count, fee)

\* Remove the request from the list of keys (Vec::swap_remove).
swap_remove(list, request) ==
    IF \E i \in 1 .. Len(list) : list[i] = request
    THEN LET index == CHOOSE i \in 1 .. Len(list) :
                         /\ list[i] = request
                         /\ \A j \in 1 .. (i - 1) : list[j] # request
             swapped == [list EXCEPT ![index] = list[Len(list)]]
         IN SubSeq(swapped, 1, Len(list) - 1)
    ELSE list

\* What a service call returns: the storage as the call leaves it, the
\* events it deposits and its result.
Failed(st) == [result |-> "Err", st |-> st, events |-> << >>]
Panicked(st) == [result |-> "Panic", st |-> st, events |-> << >>]
Done(st, evs) == [result |-> "Ok", st |-> st, events |-> evs]
\* What a submission returns: also the balances as the call leaves them.
Paid(r, bal) ==
    [result |-> r.result, st |-> r.st, events |-> r.events, balances |-> bal]
\* The submission goes on once the fee is collected: it stops if the
\* collection fails or if the caller turns out to have claimed no id.
Charged(st, paid, author, accepted) ==
    IF paid.result = "Panic" THEN Paid(Panicked(st), paid.balances)
    ELSE IF paid.result = "Err" \/ author = None THEN Paid(Failed(st), paid.balances)
    ELSE Paid(accepted, paid.balances)

\* ------------------------------------------------ server_key_generation.rs
GenMaxRequests == 4

GenStorage ==
    [ requests |-> ServerKeyGenerationRequests,
      keys |-> ServerKeyGenerationRequestsKeys,
      responses |-> ServerKeyGenerationResponses ]

\* Faulty variant of delete_request: the support of the request is kept.
gen_delete_request_keeping_support(st, request) ==
    [ requests |-> [st.requests EXCEPT ![request] = None],
      keys |-> swap_remove(st.keys, request),
      responses |-> st.responses ]

gen_delete_request(st, request) ==
    [ requests |-> [st.requests EXCEPT ![request] = None],
      keys |-> swap_remove(st.keys, request),
      responses |-> [st.responses EXCEPT ![request] = NoSupport] ]

\* Faulty variant of generate: the length of the list is not limited.
generate_unlimited(st, origin, id, threshold) ==
    IF \/ ~ (U8(threshold + 1) <= key_servers_count)
       \/ IsSome(st.requests[id])
    THEN Failed(st)
    ELSE Charged(st, collect_service_fee(origin, Fees["generation"]),
                 resolve_entity_id(origin),
                 Done([st EXCEPT
                         !.requests[id] = Some([ author |-> origin,
                                                 threshold |-> threshold,
                                                 responses |-> new_responses ]),
                         !.keys = Append(st.keys, id)],
                      << Event("ServerKeyGenerationRequested", id, origin, threshold) >>))

generate(st, origin, id, threshold) ==
    IF \/ ~ (U8(threshold + 1) <= key_servers_count)
       \/ ~ (Len(st.keys) < GenMaxRequests)
       \/ IsSome(st.requests[id])
    THEN Failed(st)
    ELSE Charged(st, collect_service_fee(origin, Fees["generation"]),
                 resolve_entity_id(origin),
                 Done([st EXCEPT
                         !.requests[id] = Some([ author |-> origin,
                                                 threshold |-> threshold,
                                                 responses |-> new_responses ]),
                         !.keys = Append(st.keys, id)],
                      << Event("ServerKeyGenerationRequested", id, origin, threshold) >>))

\* Faulty variant of on_generated: a majority of the key servers is enough.
on_generated_majority(st, origin, id, server_key_public) ==
    IF ~ IsSome(st.requests[id]) THEN Done(st, << >>)
    ELSE IF ~ IsSome(key_server_index_from_origin(origin)) THEN Failed(st)
    ELSE
      LET request == Unwrap(st.requests[id])
          ins == insert_response(Unwrap(key_server_index_from_origin(origin)),
                                 key_servers_count \div 2,
                                 request.responses,
                                 st.responses[id],
                                 server_key_public)
          stored == [st EXCEPT
                       !.requests[id] = Some([request EXCEPT !.responses = ins.responses]),
                       !.responses[id] = ins.support]
      IN CASE ins.support_result = "Unconfirmed" -> Done(stored, << >>)
           [] ins.support_result = "Confirmed" ->
                Done(gen_delete_request(stored, id),
                     << Event("ServerKeyGenerated", id, server_key_public, 0) >>)
           [] ins.support_result = "Impossible" ->
                Done(gen_delete_request(stored, id),
                     << Event("ServerKeyGenerationError", id, 0, 0) >>)

on_generated(st, origin, id, server_key_public) ==
    IF ~ IsSome(st.requests[id]) THEN Done(st, << >>)
    ELSE IF ~ IsSome(key_server_index_from_origin(origin)) THEN Failed(st)
    ELSE
      LET request == Unwrap(st.requests[id])
          ins == insert_response(Unwrap(key_server_index_from_origin(origin)),
                                 U8(key_servers_count - 1),
                                 request.responses,
                                 st.responses[id],
                                 server_key_public)
          stored == [st EXCEPT
                       !.requests[id] = Some([request EXCEPT !.responses = ins.responses]),
                       !.responses[id] = ins.support]
      IN CASE ins.support_result = "Unconfirmed" -> Done(stored, << >>)
           [] ins.support_result = "Confirmed" ->
                Done(gen_delete_request(stored, id),
                     << Event("ServerKeyGenerated", id, server_key_public, 0) >>)
           [] ins.support_result = "Impossible" ->
                Done(gen_delete_request(stored, id),
                     << Event("ServerKeyGenerationError", id, 0, 0) >>)

\* Faulty variant of on_generation_error: the failure is announced but the
\* request is kept.
on_generation_error_keeps_request(st, origin, id) ==
    IF ~ IsSome(key_server_index_from_origin(origin)) THEN Failed(st)
    ELSE IF ~ IsSome(st.requests[id]) THEN Done(st, << >>)
    ELSE Done(st, << Event("ServerKeyGenerationError", id, 0, 0) >>)

\* Faulty variant of on_generation_error: the error is ignored once a key
\* server has reported.
on_generation_error_unless_reported(st, origin, id) ==
    IF ~ IsSome(key_server_index_from_origin(origin)) THEN Failed(st)
    ELSE IF ~ IsSome(st.requests[id]) THEN Done(st, << >>)
    ELSE IF Unwrap(st.requests[id]).responses.responded_key_servers_count > 0
    THEN Done(st, << >>)
    ELSE Done(gen_delete_request(st, id),
              << Event("ServerKeyGenerationError", id, 0, 0) >>)

on_generation_error(st, origin, id) ==
    IF ~ IsSome(key_server_index_from_origin(origin)) THEN Failed(st)
    ELSE IF ~ IsSome(st.requests[id]) THEN Done(st, << >>)
    ELSE Done(gen_delete_request(st, id),
              << Event("ServerKeyGenerationError", id, 0, 0) >>)

gen_is_response_required(key_server, id) ==
    /\ IsSome(ServerKeyGenerationRequests[id])
    /\ is_response_required(key_server, Unwrap(ServerKeyGenerationRequests[id]).responses)

\* --------------------------------------------------- document_key_store.rs
StoreMaxRequests == 8
StoreStorage ==
    [ requests |-> DocumentKeyStoreRequests,
      keys |-> DocumentKeyStoreRequestsKeys,
      responses |-> DocumentKeyStoreResponses ]

store_delete_request(st, request) ==
    [ requests |-> [st.requests EXCEPT ![request] = None],
      keys |-> swap_remove(st.keys, request),
      responses |-> [st.responses EXCEPT ![request] = NoSupport] ]

store(st, origin, id, common_point, encrypted_point) ==
    IF \/ ~ (Len(st.keys) < StoreMaxRequests)
       \/ IsSome(st.requests[id])
    THEN Failed(st)
    ELSE Charged(st, collect_service_fee(origin, Fees["store"]),
                 resolve_entity_id(origin),
                 Done([st EXCEPT
                         !.requests[id] = Some([ author |-> origin,
                                                 common_point |-> common_point,
                                                 encrypted_point |-> encrypted_point,
                                                 responses |-> new_responses ]),
                         !.keys = Append(st.keys, id)],
                      << Event("DocumentKeyStoreRequested", id, origin, common_point) >>))

\* on_stored, were it to wait for one report more than the set has members.
on_stored_waiting_for_one_more(st, origin, id) ==
    IF ~ IsSome(st.requests[id]) THEN Done(st, << >>)
    ELSE IF ~ IsSome(key_server_index_from_origin(origin)) THEN Failed(st)
    ELSE
      LET request == Unwrap(st.requests[id])
          ins == insert_response(Unwrap(key_server_index_from_origin(origin)),
                                 U8(key_servers_count),
                                 request.responses,
                                 st.responses[id],
                                 0)
          stored == [st EXCEPT
                       !.requests[id] = Some([request EXCEPT !.responses = ins.responses]),
                       !.responses[id] = ins.support]
      IN CASE ins.support_result = "Unconfirmed" -> Done(stored, << >>)
           [] ins.support_result = "Confirmed" ->
                Done(store_delete_request(stored, id),
                     << Event("DocumentKeyStored", id, 0, 0) >>)
           [] ins.support_result = "Impossible" -> Panicked(st)

on_stored(st, origin, id) ==
    IF ~ IsSome(st.requests[id]) THEN Done(st, << >>)
    ELSE IF ~ IsSome(key_server_index_from_origin(origin)) THEN Failed(st)
    ELSE
      LET request == Unwrap(st.requests[id])
          ins == insert_response(Unwrap(key_server_index_from_origin(origin)),
                                 U8(key_servers_count - 1),
                                 request.responses,
                                 st.responses[id],
                                 0)
          stored == [st EXCEPT
                       !.requests[id] = Some([request EXCEPT !.responses = ins.responses]),
                       !.responses[id] = ins.support]
      IN CASE ins.support_result = "Unconfirmed" -> Done(stored, << >>)
           [] ins.support_result = "Confirmed" ->
                Done(store_delete_request(stored, id),
                     << Event("DocumentKeyStored", id, 0, 0) >>)
           [] ins.support_result = "Impossible" -> Panicked(st)

on_store_error(st, origin, id) ==
    IF ~ IsSome(key_server_index_from_origin(origin)) THEN Failed(st)
    ELSE IF ~ IsSome(st.requests[id]) THEN Done(st, << >>)
    ELSE Done(store_delete_request(st, id),
              << Event("DocumentKeyStoreError", id, 0, 0) >>)

store_is_response_required(key_server, id) ==
    /\ IsSome(DocumentKeyStoreRequests[id])
    /\ is_response_required(key_server, Unwrap(DocumentKeyStoreRequests[id]).responses)

\* ------------------------------------------------- server_key_retrieval.rs
RetrievalMaxRequests == 8

RetrievalStorage ==
    [ requests |-> ServerKeyRetrievalRequests,
      keys |-> ServerKeyRetrievalRequestsKeys,
      responses |-> ServerKeyRetrievalResponses,
      threshold_responses |-> ServerKeyRetrievalThresholdResponses ]

retrieval_delete_request(st, request) ==
    [ requests |-> [st.requests EXCEPT ![request] = None],
      keys |-> swap_remove(st.keys, request),
      responses |-> [st.responses EXCEPT ![request] = NoSupport],
      threshold_responses |->
          [st.threshold_responses EXCEPT ![request] = NoSupport] ]

retrieve(st, origin, id) ==
    IF \/ ~ (Len(st.keys) < RetrievalMaxRequests)
       \/ IsSome(st.requests[id])
    THEN Failed(st)
    \* The caller is not resolved: the request does not record it.
    ELSE Charged(st, collect_service_fee(origin, Fees["retrieval"]), Some(origin),
                 Done([st EXCEPT
                         !.requests[id] = Some([ threshold_responses |-> new_responses,
                                                 responses |-> new_responses,
                                                 server_key_with_max_threshold |-> 0 ]),
                         !.keys = Append(st.keys, id)],
                      << Event("ServerKeyRetrievalRequested", id, 0, 0) >>))

\* Faulty variant of the private insert_response: once the threshold is
\* confirmed, no key but the reported one is considered.
retrieval_insert_response_no_stabilization(st, key_server_index, id, request, server_key_public, threshold) ==
    LET threshold_ins == insert_response(key_server_index,
                                         key_servers_count \div 2,
                                         request.threshold_responses,
                                         st.threshold_responses[id],
                                         threshold)
        threshold_support == threshold_ins.support_result
        request1 == [request EXCEPT !.threshold_responses = threshold_ins.responses]
        st1 == [st EXCEPT !.threshold_responses[id] = threshold_ins.support]
        key_ins == insert_response(key_server_index,
                                   threshold,
                                   request.responses,
                                   st.responses[id],
                                   server_key_public)
        key_support == key_ins.support_result
        request2 == [request1 EXCEPT !.responses = key_ins.responses]
        st2 == [st1 EXCEPT !.responses[id] = key_ins.support]
    IN IF threshold_support = "Impossible"
       THEN [ request |-> request1, st |-> st1, support |-> threshold_support,
              final_server_key_public |-> server_key_public ]
       ELSE IF threshold_support = "Unconfirmed"
       THEN [ request |->
                 IF /\ threshold # INVALID_THRESHOLD
                    /\ request2.responses.max_response_support
                          = support(key_ins.support, server_key_public)
                 THEN [request2 EXCEPT !.server_key_with_max_threshold = server_key_public]
                 ELSE request2,
              st |-> st2, support |-> "Unconfirmed",
              final_server_key_public |-> server_key_public ]
       ELSE [ request |-> request2, st |-> st2, support |-> key_support,
              final_server_key_public |-> server_key_public ]

\* Faulty variant of retrieval_insert_response: a server key that only ties
\* the largest support does not replace the remembered one.
retrieval_insert_response_first_wins(st, key_server_index, id, request, server_key_public, threshold) ==
    LET threshold_ins == insert_response(key_server_index,
                                         key_servers_count \div 2,
                                         request.threshold_responses,
                                         st.threshold_responses[id],
                                         threshold)
        threshold_support == threshold_ins.support_result
        request1 == [request EXCEPT !.threshold_responses = threshold_ins.responses]
        st1 == [st EXCEPT !.threshold_responses[id] = threshold_ins.support]
        key_ins == insert_response(key_server_index,
                                   threshold,
                                   request.responses,
                                   st.responses[id],
                                   server_key_public)
        key_support == key_ins.support_result
        request2 == [request1 EXCEPT !.responses = key_ins.responses]
        st2 == [st1 EXCEPT !.responses[id] = key_ins.support]
    IN IF threshold_support = "Impossible"
       THEN [ request |-> request1, st |-> st1, support |-> threshold_support,
              final_server_key_public |-> server_key_public ]
       ELSE IF threshold_support = "Unconfirmed"
       THEN [ request |->
                 IF /\ threshold # INVALID_THRESHOLD
                    /\ request2.responses.max_response_support
                          = support(key_ins.support, server_key_public)
                    /\ request2.responses.max_response_support
                          > request.responses.max_response_support
                 THEN [request2 EXCEPT !.server_key_with_max_threshold = server_key_public]
                 ELSE request2,
              st |-> st2, support |-> "Unconfirmed",
              final_server_key_public |-> server_key_public ]
       ELSE IF /\ key_support = "Unconfirmed"
               /\ request2.responses.max_response_support >= U8(threshold + 1)
       THEN [ request |-> request2, st |-> st2, support |-> "Confirmed",
              final_server_key_public |-> request2.server_key_with_max_threshold ]
       ELSE [ request |-> request2, st |-> st2, support |-> key_support,
              final_server_key_public |-> server_key_public ]

\* The private insert_response of the service.  The result holds the
\* request as the caller gets it back, the two support tables as they are
\* left in storage, the support and the server key to publish.
\* retrieval_insert_response, were it to go on to the server key after an
\* Impossible threshold.
retrieval_insert_response_deciding_by_key(st, key_server_index, id, request, server_key_public, threshold) ==
    LET threshold_ins == insert_response(key_server_index,
                                         key_servers_count \div 2,
                                         request.threshold_responses,
                                         st.threshold_responses[id],
                                         threshold)
        threshold_support == threshold_ins.support_result
        request1 == [request EXCEPT !.threshold_responses = threshold_ins.responses]
        st1 == [st EXCEPT !.threshold_responses[id] = threshold_ins.support]
        key_ins == insert_response(key_server_index,
                                   threshold,
                                   request.responses,
                                   st.responses[id],
                                   server_key_public)
        key_support == key_ins.support_result
        request2 == [request1 EXCEPT !.responses = key_ins.responses]
        st2 == [st1 EXCEPT !.responses[id] = key_ins.support]
    IN IF threshold_support = "Unconfirmed"
       THEN [ request |->
                 IF /\ threshold # INVALID_THRESHOLD
                    /\ request2.responses.max_response_support
                          = support(key_ins.support, server_key_public)
                 THEN [request2 EXCEPT !.server_key_with_max_threshold = server_key_public]
                 ELSE request2,
              st |-> st2, support |-> "Unconfirmed",
              final_server_key_public |-> server_key_public ]
       ELSE IF /\ key_support = "Unconfirmed"
               /\ request2.responses.max_response_support >= U8(threshold + 1)
       THEN [ request |-> request2, st |-> st2, support |-> "Confirmed",
              final_server_key_public |-> request2.server_key_with_max_threshold ]
       ELSE [ request |-> request2, st |-> st2, support |-> key_support,
              final_server_key_public |-> server_key_public ]

retrieval_insert_response(st, key_server_index, id, request, server_key_public, threshold) ==
    LET threshold_ins == insert_response(key_server_index,
                                         key_servers_count \div 2,
                                         request.threshold_responses,
                                         st.threshold_responses[id],
                                         threshold)
        threshold_support == threshold_ins.support_result
        request1 == [request EXCEPT !.threshold_responses = threshold_ins.responses]
        st1 == [st EXCEPT !.threshold_responses[id] = threshold_ins.support]
        key_ins == insert_response(key_server_index,
                                   threshold,
                                   request.responses,
                                   st.responses[id],
                                   server_key_public)
        key_support == key_ins.support_result
        request2 == [request1 EXCEPT !.responses = key_ins.responses]
        st2 == [st1 EXCEPT !.responses[id] = key_ins.support]
    IN IF threshold_support = "Impossible"
       THEN [ request |-> request1, st |-> st1, support |-> threshold_support,
              final_server_key_public |-> server_key_public ]
       ELSE IF threshold_support = "Unconfirmed"
       THEN [ request |->
                 IF /\ threshold # INVALID_THRESHOLD
                    /\ request2.responses.max_response_support
                          = support(key_ins.support, server_key_public)
                 THEN [request2 EXCEPT !.server_key_with_max_threshold = server_key_public]
                 ELSE request2,
              st |-> st2, support |-> "Unconfirmed",
              final_server_key_public |-> server_key_public ]
       ELSE IF /\ key_support = "Unconfirmed"
               /\ request2.responses.max_response_support >= U8(threshold + 1)
       THEN [ request |-> request2, st |-> st2, support |-> "Confirmed",
              final_server_key_public |-> request2.server_key_with_max_threshold ]
       ELSE [ request |-> request2, st |-> st2, support |-> key_support,
              final_server_key_public |-> server_key_public ]

on_retrieved(st, origin, id, server_key_public, threshold) ==
    IF ~ IsSome(st.requests[id]) THEN Done(st, << >>)
    ELSE IF ~ IsSome(key_server_index_from_origin(origin)) THEN Failed(st)
    ELSE
      LET ins == retrieval_insert_response(st, Unwrap(key_server_index_from_origin(origin)),
                                           id, Unwrap(st.requests[id]),
                                           server_key_public, threshold)
      IN CASE ins.support = "Unconfirmed" ->
                Done([ins.st EXCEPT !.requests[id] = Some(ins.request)], << >>)
           [] ins.support = "Confirmed" ->
                Done(retrieval_delete_request(ins.st, id),
                     << Event("ServerKeyRetrieved", id, ins.final_server_key_public, 0) >>)
           [] ins.support = "Impossible" ->
                Done(retrieval_delete_request(ins.st, id),
                     << Event("ServerKeyRetrievalError", id, 0, 0) >>)

\* Faulty variant of on_retrieval_error: the caller is checked first, as in
\* on_generation_error.
on_retrieval_error_caller_first(st, origin, id) ==
    IF ~ IsSome(key_server_index_from_origin(origin)) THEN Failed(st)
    ELSE IF ~ IsSome(st.requests[id]) THEN Done(st, << >>)
    ELSE
      LET ins == retrieval_insert_response(st, Unwrap(key_server_index_from_origin(origin)),
                                           id, Unwrap(st.requests[id]),
                                           0, INVALID_THRESHOLD)
      IN IF ins.support = "Unconfirmed"
         THEN Done([ins.st EXCEPT !.requests[id] = Some(ins.request)], << >>)
         ELSE Done(retrieval_delete_request(ins.st, id),
                   << Event("ServerKeyRetrievalError", id, 0, 0) >>)

\* on_retrieval_error, were the first error report to end the request as in
\* on_generation_error.
on_retrieval_error_ending_the_request(st, origin, id) ==
    IF ~ IsSome(st.requests[id]) THEN Done(st, << >>)
    ELSE IF ~ IsSome(key_server_index_from_origin(origin)) THEN Failed(st)
    ELSE Done(retrieval_delete_request(st, id),
              << Event("ServerKeyRetrievalError", id, 0, 0) >>)

on_retrieval_error(st, origin, id) ==
    IF ~ IsSome(st.requests[id]) THEN Done(st, << >>)
    ELSE IF ~ IsSome(key_server_index_from_origin(origin)) THEN Failed(st)
    ELSE
      LET ins == retrieval_insert_response(st, Unwrap(key_server_index_from_origin(origin)),
                                           id, Unwrap(st.requests[id]),
                                           0, INVALID_THRESHOLD)
      IN IF ins.support = "Unconfirmed"
         THEN Done([ins.st EXCEPT !.requests[id] = Some(ins.request)], << >>)
         ELSE Done(retrieval_delete_request(ins.st, id),
                   << Event("ServerKeyRetrievalError", id, 0, 0) >>)

retrieval_is_response_required(key_server, id) ==
    /\ IsSome(ServerKeyRetrievalRequests[id])
    /\ is_response_required(key_server,
                            Unwrap(ServerKeyRetrievalRequests[id]).threshold_responses)

\* ---------------------------------------- document_key_shadow_retrieval.rs
ShadowMaxRequests == 4

\* A request is identified by the key id and the requester.
ShadowRetrievalIds == ServerKeyIds \X FeePayers

\* The public key of an account, and the address computed from a public key.
PublicKeyOffset == 1000
public_of(account) == account + PublicKeyOffset
computed_requester_address(requester_public) == requester_public - PublicKeyOffset

ShadowStorage ==
    [ requests |-> DocumentKeyShadowRetrievalRequests,
      keys |-> DocumentKeyShadowRetrievalRequestsKeys,
      common |-> DocumentKeyShadowRetrievalCommonResponses,
      personal |-> DocumentKeyShadowRetrievalPersonalResponses ]

\* DocumentKeyShadowRetrievalPersonalData::default()
DefaultPersonalData == [ participants |-> {}, reported |-> {}, reported_count |-> 0 ]
NoPersonal == [k \in {} |-> DefaultPersonalData]
personal_get(map, key) == IF key \in DOMAIN map THEN map[key] ELSE DefaultPersonalData
personal_insert(map, key, data) ==
    [k \in DOMAIN map \cup {key} |-> IF k = key THEN data ELSE map[k]]

shadow_delete_request(st, request) ==
    [ requests |-> [st.requests EXCEPT ![request] = None],
      keys |-> swap_remove(st.keys, request),
      common |-> [st.common EXCEPT ![request] = NoSupport],
      personal |-> [st.personal EXCEPT ![request] = NoPersonal] ]

shadow_retrieve(st, origin, id, requester_public) ==
    LET requester == origin
        retrieval_id == << id, requester >>
    IN
    \* The caller is resolved before the fee is collected.
    IF \/ ~ (Len(st.keys) < ShadowMaxRequests)
       \/ resolve_entity_id(origin) = None
       \/ requester # computed_requester_address(requester_public)
       \/ IsSome(st.requests[retrieval_id])
    THEN Failed(st)
    ELSE Charged(st, collect_service_fee(origin, Fees["shadow"]), Some(requester),
                 Done([st EXCEPT
                         !.requests[retrieval_id] =
                             Some([ requester |-> requester,
                                    requester_public |-> requester_public,
                                    common_responses |-> new_responses,
                                    threshold |-> None,
                                    personal_retrieval_errors_mask |-> {},
                                    personal_retrieval_errors_count |-> 0 ]),
                         !.keys = Append(st.keys, retrieval_id)],
                      << Event("DocumentKeyShadowRetrievalRequested", id, requester, 0) >>))

\* Faulty variant of on_common_retrieved: the caller is checked before the
\* phase of the request.
on_common_retrieved_caller_first(st, origin, id, requester, common_point, threshold) ==
    LET retrieval_id == << id, requester >> IN
    IF ~ IsSome(st.requests[retrieval_id]) THEN Done(st, << >>)
    ELSE IF ~ IsSome(key_server_index_from_origin(origin)) THEN Failed(st)
    ELSE IF IsSome(Unwrap(st.requests[retrieval_id]).threshold) THEN Done(st, << >>)
    ELSE
      LET request == Unwrap(st.requests[retrieval_id])
          ins == insert_response(Unwrap(key_server_index_from_origin(origin)),
                                 key_servers_count \div 2,
                                 request.common_responses,
                                 st.common[retrieval_id],
                                 << common_point, threshold >>)
          request1 == [request EXCEPT !.common_responses = ins.responses]
          st1 == [st EXCEPT !.common[retrieval_id] = ins.support]
      IN CASE ins.support_result = "Unconfirmed" ->
                Done([st1 EXCEPT !.requests[retrieval_id] = Some(request1)], << >>)
           [] ins.support_result = "Confirmed" ->
                Done([st1 EXCEPT !.requests[retrieval_id] =
                          Some([request1 EXCEPT !.threshold = Some(threshold)])],
                     << Event("DocumentKeyCommonRetrieved", id, requester,
                              << common_point, threshold >>),
                        Event("DocumentKeyPersonalRetrievalRequested", id,
                              request.requester_public, 0) >>)
           [] ins.support_result = "Impossible" ->
                Done(shadow_delete_request(st1, retrieval_id),
                     << Event("DocumentKeyShadowRetrievalError", id, requester, 0) >>)

\* on_common_retrieved, were it to accept common data once the threshold is
\* known.
on_common_retrieved_in_any_phase(st, origin, id, requester, common_point, threshold) ==
    LET retrieval_id == << id, requester >> IN
    IF ~ IsSome(st.requests[retrieval_id]) THEN Done(st, << >>)
    ELSE IF ~ IsSome(key_server_index_from_origin(origin)) THEN Failed(st)
    ELSE
      LET request == Unwrap(st.requests[retrieval_id])
          ins == insert_response(Unwrap(key_server_index_from_origin(origin)),
                                 key_servers_count \div 2,
                                 request.common_responses,
                                 st.common[retrieval_id],
                                 << common_point, threshold >>)
          request1 == [request EXCEPT !.common_responses = ins.responses]
          st1 == [st EXCEPT !.common[retrieval_id] = ins.support]
      IN CASE ins.support_result = "Unconfirmed" ->
                Done([st1 EXCEPT !.requests[retrieval_id] = Some(request1)], << >>)
           [] ins.support_result = "Confirmed" ->
                Done([st1 EXCEPT !.requests[retrieval_id] =
                          Some([request1 EXCEPT !.threshold = Some(threshold)])],
                     << Event("DocumentKeyCommonRetrieved", id, requester,
                              << common_point, threshold >>),
                        Event("DocumentKeyPersonalRetrievalRequested", id,
                              request.requester_public, 0) >>)
           [] ins.support_result = "Impossible" ->
                Done(shadow_delete_request(st1, retrieval_id),
                     << Event("DocumentKeyShadowRetrievalError", id, requester, 0) >>)

on_common_retrieved(st, origin, id, requester, common_point, threshold) ==
    LET retrieval_id == << id, requester >> IN
    IF ~ IsSome(st.requests[retrieval_id]) THEN Done(st, << >>)
    ELSE IF IsSome(Unwrap(st.requests[retrieval_id]).threshold) THEN Done(st, << >>)
    ELSE IF ~ IsSome(key_server_index_from_origin(origin)) THEN Failed(st)
    ELSE
      LET request == Unwrap(st.requests[retrieval_id])
          ins == insert_response(Unwrap(key_server_index_from_origin(origin)),
                                 key_servers_count \div 2,
                                 request.common_responses,
                                 st.common[retrieval_id],
                                 << common_point, threshold >>)
          request1 == [request EXCEPT !.common_responses = ins.responses]
          st1 == [st EXCEPT !.common[retrieval_id] = ins.support]
      IN CASE ins.support_result = "Unconfirmed" ->
                Done([st1 EXCEPT !.requests[retrieval_id] = Some(request1)], << >>)
           [] ins.support_result = "Confirmed" ->
                Done([st1 EXCEPT !.requests[retrieval_id] =
                          Some([request1 EXCEPT !.threshold = Some(threshold)])],
                     << Event("DocumentKeyCommonRetrieved", id, requester,
                              << common_point, threshold >>),
                        Event("DocumentKeyPersonalRetrievalRequested", id,
                              request.requester_public, 0) >>)
           [] ins.support_result = "Impossible" ->
                Done(shadow_delete_request(st1, retrieval_id),
                     << Event("DocumentKeyShadowRetrievalError", id, requester, 0) >>)

\* Faulty variant of on_personal_retrieved: the request is deleted when the
\* group has as many reports as the threshold.
on_personal_retrieved_one_early(st, origin, id, requester, participants, decrypted_secret) ==
    LET retrieval_id == << id, requester >> IN
    IF ~ IsSome(st.requests[retrieval_id]) THEN Done(st, << >>)
    ELSE IF ~ IsSome(Unwrap(st.requests[retrieval_id]).threshold) THEN Failed(st)
    ELSE IF ~ IsSome(key_server_index_from_origin(origin)) THEN Failed(st)
    ELSE
      LET request == Unwrap(st.requests[retrieval_id])
          key_server_mask == from_index(Unwrap(key_server_index_from_origin(origin)))
          personal_data == personal_get(st.personal[retrieval_id],
                                        << participants, decrypted_secret >>)
          updated == [personal_data EXCEPT
                        !.reported_count = U8(personal_data.reported_count + 1),
                        !.participants = union(personal_data.participants, key_server_mask)]
          published == << Event("DocumentKeyPersonalRetrieved", id, requester,
                                decrypted_secret) >>
      IN IF participants # union(participants, key_server_mask) THEN Failed(st)
         ELSE IF updated.participants = personal_data.participants THEN Failed(st)
         ELSE IF request.threshold # Some(updated.reported_count)
         THEN Done([st EXCEPT !.personal[retrieval_id] =
                        personal_insert(st.personal[retrieval_id],
                                        << participants, decrypted_secret >>, updated)],
                   published)
         ELSE Done(shadow_delete_request(st, retrieval_id), published)

\* on_personal_retrieved, were a key server to report to a group twice.
on_personal_retrieved_again(st, origin, id, requester, participants, decrypted_secret) ==
    LET retrieval_id == << id, requester >> IN
    IF ~ IsSome(st.requests[retrieval_id]) THEN Done(st, << >>)
    ELSE IF ~ IsSome(Unwrap(st.requests[retrieval_id]).threshold) THEN Failed(st)
    ELSE IF ~ IsSome(key_server_index_from_origin(origin)) THEN Failed(st)
    ELSE
      LET request == Unwrap(st.requests[retrieval_id])
          key_server_mask == from_index(Unwrap(key_server_index_from_origin(origin)))
          updated_participants == union(participants, key_server_mask)
          personal_data == personal_get(st.personal[retrieval_id],
                                        << participants, decrypted_secret >>)
          personal_data_updated_participants ==
              union(personal_data.participants, key_server_mask)
          updated == [personal_data EXCEPT
                        !.reported_count = U8(personal_data.reported_count + 1),
                        !.participants = personal_data_updated_participants]
          published == << Event("DocumentKeyPersonalRetrieved", id, requester,
                                decrypted_secret) >>
      IN IF participants # updated_participants THEN Failed(st)
         ELSE IF request.threshold # Some(U8(updated.reported_count - 1))
         THEN Done([st EXCEPT !.personal[retrieval_id] =
                        personal_insert(st.personal[retrieval_id],
                                        << participants, decrypted_secret >>, updated)],
                   published)
         ELSE Done(shadow_delete_request(st, retrieval_id), published)

on_personal_retrieved(st, origin, id, requester, participants, decrypted_secret) ==
    LET retrieval_id == << id, requester >> IN
    IF ~ IsSome(st.requests[retrieval_id]) THEN Done(st, << >>)
    ELSE IF ~ IsSome(Unwrap(st.requests[retrieval_id]).threshold) THEN Failed(st)
    ELSE IF ~ IsSome(key_server_index_from_origin(origin)) THEN Failed(st)
    ELSE
      LET request == Unwrap(st.requests[retrieval_id])
          key_server_mask == from_index(Unwrap(key_server_index_from_origin(origin)))
          updated_participants == union(participants, key_server_mask)
          personal_data == personal_get(st.personal[retrieval_id],
                                        << participants, decrypted_secret >>)
          personal_data_updated_participants ==
              union(personal_data.participants, key_server_mask)
          updated == [personal_data EXCEPT
                        !.reported_count = U8(personal_data.reported_count + 1),
                        !.participants = personal_data_updated_participants]
          published == << Event("DocumentKeyPersonalRetrieved", id, requester,
                                decrypted_secret) >>
      IN IF participants # updated_participants THEN Failed(st)
         ELSE IF personal_data_updated_participants = personal_data.participants
         THEN Failed(st)
         ELSE IF request.threshold # Some(U8(updated.reported_count - 1))
         THEN Done([st EXCEPT !.personal[retrieval_id] =
                        personal_insert(st.personal[retrieval_id],
                                        << participants, decrypted_secret >>, updated)],
                   published)
         ELSE Done(shadow_delete_request(st, retrieval_id), published)

\* on_retrieval_error, were it to count every error report.
shadow_on_retrieval_error_counting_repeated(st, origin, id, requester) ==
    LET retrieval_id == << id, requester >> IN
    IF ~ IsSome(st.requests[retrieval_id]) THEN Done(st, << >>)
    ELSE IF ~ IsSome(key_server_index_from_origin(origin)) THEN Failed(st)
    ELSE
      LET request == Unwrap(st.requests[retrieval_id])
          key_server_index == Unwrap(key_server_index_from_origin(origin))
          failed == << Event("DocumentKeyShadowRetrievalError", id, requester, 0) >>
      IN IF ~ IsSome(request.threshold)
         THEN LET ins == insert_response(key_server_index,
                                         key_servers_count \div 2,
                                         request.common_responses,
                                         st.common[retrieval_id],
                                         << 0, INVALID_THRESHOLD >>)
                  request1 == [request EXCEPT !.common_responses = ins.responses]
                  st1 == [st EXCEPT !.common[retrieval_id] = ins.support]
              IN IF ins.support_result = "Unconfirmed"
                 THEN Done([st1 EXCEPT !.requests[retrieval_id] = Some(request1)], << >>)
                 ELSE Done(shadow_delete_request(st1, retrieval_id), failed)
         ELSE LET key_server_mask == from_index(key_server_index)
                  updated_personal_retrieval_errors_mask ==
                      union(request.personal_retrieval_errors_mask, key_server_mask)
                  request1 == [request EXCEPT
                      !.personal_retrieval_errors_mask =
                          updated_personal_retrieval_errors_mask,
                      !.personal_retrieval_errors_count =
                          U8(request.personal_retrieval_errors_count + 1)]
              IN IF request1.personal_retrieval_errors_count
                           < U8((key_servers_count \div 2) + 1)
                 THEN Done([st EXCEPT !.requests[retrieval_id] = Some(request1)], << >>)
                 ELSE Done(shadow_delete_request(st, retrieval_id), failed)

shadow_on_retrieval_error(st, origin, id, requester) ==
    LET retrieval_id == << id, requester >> IN
    IF ~ IsSome(st.requests[retrieval_id]) THEN Done(st, << >>)
    ELSE IF ~ IsSome(key_server_index_from_origin(origin)) THEN Failed(st)
    ELSE
      LET request == Unwrap(st.requests[retrieval_id])
          key_server_index == Unwrap(key_server_index_from_origin(origin))
          failed == << Event("DocumentKeyShadowRetrievalError", id, requester, 0) >>
      IN IF ~ IsSome(request.threshold)
         THEN LET ins == insert_response(key_server_index,
                                         key_servers_count \div 2,
                                         request.common_responses,
                                         st.common[retrieval_id],
                                         << 0, INVALID_THRESHOLD >>)
                  request1 == [request EXCEPT !.common_responses = ins.responses]
                  st1 == [st EXCEPT !.common[retrieval_id] = ins.support]
              IN IF ins.support_result = "Unconfirmed"
                 THEN Done([st1 EXCEPT !.requests[retrieval_id] = Some(request1)], << >>)
                 ELSE Done(shadow_delete_request(st1, retrieval_id), failed)
         ELSE LET key_server_mask == from_index(key_server_index)
                  updated_personal_retrieval_errors_mask ==
                      union(request.personal_retrieval_errors_mask, key_server_mask)
                  request1 == [request EXCEPT
                      !.personal_retrieval_errors_mask =
                          updated_personal_retrieval_errors_mask,
                      !.personal_retrieval_errors_count =
                          U8(request.personal_retrieval_errors_count + 1)]
              IN IF updated_personal_retrieval_errors_mask
                       = request.personal_retrieval_errors_mask
                 THEN Done(st, << >>)
                 ELSE IF request1.personal_retrieval_errors_count
                           < U8((key_servers_count \div 2) + 1)
                 THEN Done([st EXCEPT !.requests[retrieval_id] = Some(request1)], << >>)
                 ELSE Done(shadow_delete_request(st, retrieval_id), failed)

shadow_is_response_required(key_server, id, requester) ==
    /\ IsSome(DocumentKeyShadowRetrievalRequests[<< id, requester >>])
    /\ \/ IsSome(Unwrap(DocumentKeyShadowRetrievalRequests[<< id, requester >>]).threshold)
       \/ is_response_required(
              key_server,
              Unwrap(DocumentKeyShadowRetrievalRequests[<< id, requester >>]).common_responses)

\* ------------------------------------------------------------- history
Tasks == {"generation", "store", "retrieval", "shadow"}
TaskIds(task) == IF task = "shadow" THEN ShadowRetrievalIds ELSE ServerKeyIds

Value(v) == [kind |-> "value", value |-> v]
Error(v) == [kind |-> "error", value |-> v]

\* The first terminal notification among the events of a call, if any, with
\* the value it publishes.
Terminal(evs, success, failure) ==
    IF \E i \in 1 .. Len(evs) : evs[i].name = success
    THEN LET i == CHOOSE i \in 1 .. Len(evs) : evs[i].name = success
         IN << "Success",
               IF success = "DocumentKeyCommonRetrieved" THEN evs[i].b ELSE evs[i].a >>
    ELSE IF \E i \in 1 .. Len(evs) : evs[i].name = failure
    THEN << "Failure" >>
    ELSE << >>

TerminalOf(task, evs) ==
    CASE task = "generation" ->
            Terminal(evs, "ServerKeyGenerated", "ServerKeyGenerationError")
      [] task = "store" ->
            Terminal(evs, "DocumentKeyStored", "DocumentKeyStoreError")
      [] task = "retrieval" ->
            Terminal(evs, "ServerKeyRetrieved", "ServerKeyRetrievalError")
      [] task = "shadow" ->
            Terminal(evs, "DocumentKeyCommonRetrieved", "DocumentKeyShadowRetrievalError")

Decided(old, task, evs) ==
    IF old = << "Pending" >> /\ TerminalOf(task, evs) # << >>
    THEN TerminalOf(task, evs)
    ELSE old

\* Only a submission returns balances: no other call moves funds.
Returned(r) ==
    /\ events' = r.events
    /\ balances' = IF "balances" \in DOMAIN r THEN r.balances ELSE balances
    /\ UNCHANGED << Fees, key_servers_iter >>

\* A request is submitted and the call returns r.
Submitted(task, id, r) ==
    IF r.result = "Ok"
    THEN /\ votes' = [votes EXCEPT ![task][id] = EmptySet]
         /\ outcome' = [outcome EXCEPT ![task][id] = << "Pending" >>]
         /\ ideal' = [st |-> r.st, outcome |-> << "Pending" >>]
    ELSE UNCHANGED histVars

IsRepeated(task, id, origin) == contains(votes[task][id], origin)

\* A key server delivers a report on the request: the call returns r; the
\* same call on the storage of the ideal run returns ri.  The ideal run
\* leaves out the repeated reports; an error report on a generation or store
\* request is not a vote of the key server and is never left out.
Reported(task, id, origin, report, r, ri) ==
    /\ votes' = IF /\ r.result = "Ok"
                   /\ outcome[task][id] = << "Pending" >>
                   /\ contains(CurrentKeyServers, origin)
                   /\ ~ IsRepeated(task, id, origin)
                THEN [votes EXCEPT ![task][id] =
                        [k \in DOMAIN votes[task][id] \cup {origin} |->
                            IF k = origin THEN report ELSE votes[task][id][k]]]
                ELSE votes
    /\ outcome' = [outcome EXCEPT ![task][id] = Decided(@, task, r.events)]
    /\ ideal' = IF /\ IsRepeated(task, id, origin)
                   /\ ~ (task \in {"generation", "store"} /\ report.kind = "error")
                THEN ideal
                ELSE [st |-> ri.st, outcome |-> Decided(ideal.outcome, task, ri.events)]

\* A completed migration starts a new round of reports.
MigrationHistory ==
    /\ votes' = IF IsSome(MigrationId) /\ MigrationId' = None
                THEN [t \in Tasks |-> [id \in TaskIds(t) |-> EmptySet]]
                ELSE votes
    /\ UNCHANGED << outcome, ideal >>

\* ------------------------------------------------------------- lib.rs
GenStored(r) ==
    /\ ServerKeyGenerationRequests' = r.st.requests
    /\ ServerKeyGenerationRequestsKeys' = r.st.keys
    /\ ServerKeyGenerationResponses' = r.st.responses

generate_server_key(origin, id, threshold) ==
    \E r \in {generate(GenStorage, origin, id, threshold)} :
       /\ GenStored(r)
       /\ Returned(r)
       /\ Submitted("generation", id, r)

server_key_generated(origin, id, server_key_public) ==
    \E r \in {on_generated(GenStorage, origin, id, server_key_public)},
       ri \in {on_generated(ideal.st, origin, id, server_key_public)} :
       /\ GenStored(r)
       /\ Returned(r)
       /\ Reported("generation", id, origin, Value(server_key_public), r, ri)

server_key_generation_error(origin, id) ==
    \E r \in {on_generation_error(GenStorage, origin, id)},
       ri \in {on_generation_error(ideal.st, origin, id)} :
       /\ GenStored(r)
       /\ Returned(r)
       /\ Reported("generation", id, origin, Error(0), r, ri)

RetrievalStored(r) ==
    /\ ServerKeyRetrievalRequests' = r.st.requests
    /\ ServerKeyRetrievalRequestsKeys' = r.st.keys
    /\ ServerKeyRetrievalResponses' = r.st.responses
    /\ ServerKeyRetrievalThresholdResponses' = r.st.threshold_responses

retrieve_server_key(origin, id) ==
    \E r \in {retrieve(RetrievalStorage, origin, id)} :
       /\ RetrievalStored(r)
       /\ Returned(r)
       /\ Submitted("retrieval", id, r)

server_key_retrieved(origin, id, server_key_public, threshold) ==
    \E r \in {on_retrieved(RetrievalStorage, origin, id, server_key_public, threshold)},
       ri \in {on_retrieved(ideal.st, origin, id, server_key_public, threshold)} :
       /\ RetrievalStored(r)
       /\ Returned(r)
       /\ Reported("retrieval", id, origin,
                   Value(<< server_key_public, threshold >>), r, ri)

server_key_retrieval_error(origin, id) ==
    \E r \in {on_retrieval_error(RetrievalStorage, origin, id)},
       ri \in {on_retrieval_error(ideal.st, origin, id)} :
       /\ RetrievalStored(r)
       /\ Returned(r)
       /\ Reported("retrieval", id, origin, Error(<< 0, INVALID_THRESHOLD >>), r, ri)

StoreStored(r) ==
    /\ DocumentKeyStoreRequests' = r.st.requests
    /\ DocumentKeyStoreRequestsKeys' = r.st.keys
    /\ DocumentKeyStoreResponses' = r.st.responses

store_document_key(origin, id, common_point, encrypted_point) ==
    \E r \in {store(StoreStorage, origin, id, common_point, encrypted_point)} :
       /\ StoreStored(r)
       /\ Returned(r)
       /\ Submitted("store", id, r)

document_key_stored(origin, id) ==
    \E r \in {on_stored(StoreStorage, origin, id)},
       ri \in {on_stored(ideal.st, origin, id)} :
       /\ StoreStored(r)
       /\ Returned(r)
       /\ Reported("store", id, origin, Value(0), r, ri)

document_key_store_error(origin, id) ==
    \E r \in {on_store_error(StoreStorage, origin, id)},
       ri \in {on_store_error(ideal.st, origin, id)} :
       /\ StoreStored(r)
       /\ Returned(r)
       /\ Reported("store", id, origin, Error(0), r, ri)

ShadowStored(r) ==
    /\ DocumentKeyShadowRetrievalRequests' = r.st.requests
    /\ DocumentKeyShadowRetrievalRequestsKeys' = r.st.keys
    /\ DocumentKeyShadowRetrievalCommonResponses' = r.st.common
    /\ DocumentKeyShadowRetrievalPersonalResponses' = r.st.personal

retrieve_document_key_shadow(origin, id, requester_public) ==
    \E r \in {shadow_retrieve(ShadowStorage, origin, id, requester_public)} :
       /\ ShadowStored(r)
       /\ Returned(r)
       /\ IF << id, origin >> \in DOMAIN outcome["shadow"]
          THEN Submitted("shadow", << id, origin >>, r)
          ELSE UNCHANGED histVars

document_key_common_retrieved(origin, id, requester, common_point, threshold) ==
    \E r \in {on_common_retrieved(ShadowStorage, origin, id, requester,
                                  common_point, threshold)},
       ri \in {on_common_retrieved(ideal.st, origin, id, requester,
                                   common_point, threshold)} :
       /\ ShadowStored(r)
       /\ Returned(r)
       /\ Reported("shadow", << id, requester >>, origin,
                   Value(<< common_point, threshold >>), r, ri)

document_key_personal_retrieved(origin, id, requester, participants, decrypted_secret) ==
    \E r \in {on_personal_retrieved(ShadowStorage, origin, id, requester,
                                    participants, decrypted_secret)},
       ri \in {on_personal_retrieved(ideal.st, origin, id, requester,
                                     participants, decrypted_secret)} :
       /\ ShadowStored(r)
       /\ Returned(r)
       /\ ideal' = [ideal EXCEPT !.st = ri.st]
       /\ UNCHANGED << votes, outcome >>

\* In the common phase an error is a report on the common data; afterwards
\* it is a report on the personal data.
document_key_shadow_retrieval_error(origin, id, requester) ==
    \E r \in {shadow_on_retrieval_error(ShadowStorage, origin, id, requester)},
       ri \in {shadow_on_retrieval_error(ideal.st, origin, id, requester)},
       request \in {DocumentKeyShadowRetrievalRequests[<< id, requester >>]} :
       /\ ShadowStored(r)
       /\ Returned(r)
       /\ IF IsSome(request) /\ IsSome(Unwrap(request).threshold)
          THEN /\ ideal' = [ideal EXCEPT !.st = ri.st]
               /\ UNCHANGED << votes, outcome >>
          ELSE Reported("shadow", << id, requester >>, origin,
                        Error(<< 0, INVALID_THRESHOLD >>), r, ri)

\* ------------------------------------------------------- specifications
Genesis(n) == [i \in 1 .. n |-> KEY_SERVER0 + i - 1]

\* The key server set after the genesis build with the given key servers.
InitSet(key_servers, is_initialization_completed) ==
    /\ IsInitialized = is_initialization_completed
    /\ CurrentSetChangeBlock = 0
    /\ CurrentKeyServers = key_servers
    /\ NewKeyServers = key_servers
    /\ MigrationKeyServers = EmptySet
    /\ MigrationId = None
    /\ MigrationConfirmations = {}
    /\ block_number = 1

\* The requests after the genesis build: none.
InitRequests(key_ids, retrieval_ids) ==
    /\ ServerKeyGenerationRequestsKeys = << >>
    /\ ServerKeyGenerationRequests = [id \in key_ids |-> None]
    /\ ServerKeyGenerationResponses = [id \in key_ids |-> NoSupport]
    /\ DocumentKeyStoreRequestsKeys = << >>
    /\ DocumentKeyStoreRequests = [id \in key_ids |-> None]
    /\ DocumentKeyStoreResponses = [id \in key_ids |-> NoSupport]
    /\ ServerKeyRetrievalRequestsKeys = << >>
    /\ ServerKeyRetrievalRequests = [id \in key_ids |-> None]
    /\ ServerKeyRetrievalResponses = [id \in key_ids |-> NoSupport]
    /\ ServerKeyRetrievalThresholdResponses =
           [id \in key_ids |-> NoSupport]
    /\ DocumentKeyShadowRetrievalRequestsKeys = << >>
    /\ DocumentKeyShadowRetrievalRequests = [id \in retrieval_ids |-> None]
    /\ DocumentKeyShadowRetrievalCommonResponses =
           [id \in retrieval_ids |-> NoSupport]
    /\ DocumentKeyShadowRetrievalPersonalResponses =
           [id \in retrieval_ids |-> NoPersonal]
    /\ events = << >>
    /\ votes = [t \in Tasks |->
                  [id \in IF t = "shadow" THEN retrieval_ids ELSE key_ids |-> EmptySet]]
    /\ outcome = [t \in Tasks |->
                  [id \in IF t = "shadow" THEN retrieval_ids ELSE key_ids |-> << "None" >>]]
    /\ ideal = [st |-> << >>, outcome |-> << "None" >>]

\* The storage after the genesis build with n key servers.
InitStorageOf(n, is_initialization_completed, key_ids, retrieval_ids) ==
    /\ InitSet(fill(EmptySet, Genesis(n)), is_initialization_completed)
    /\ InitRequests(key_ids, retrieval_ids)

\* The genesis of the fees and of the balances.
InitFees(fee, funds, iter) ==
    /\ Fees = [t \in Tasks |-> fee]
    /\ balances = funds
    /\ key_servers_iter = iter
\* The services are free of charge: no call moves funds.
GenesisBalance == 10
FreeOfCharge ==
    InitFees(0, [a \in Holders |-> IF a \in FeePayers THEN GenesisBalance ELSE 0],
             Genesis(MaxGenesis))
InitStorage(n, is_initialization_completed) ==
    /\ InitStorageOf(n, is_initialization_completed, ServerKeyIds, ShadowRetrievalIds)
    /\ FreeOfCharge

\* The accounts that submit requests: those with funds.
Requesters(accounts) == accounts \cap FeePayers

Secrets == 1 .. NumSecrets

\* Every run exercises one service: a request of a service is submitted
\* only if no request of another service has been.
OnlyService(task) ==
    \A t \in Tasks \ {task} : \A id \in TaskIds(t) : outcome[t][id] = << "None" >>

\* Key servers report on the requests that have been submitted.
InUse(task, id) == outcome[task][id] # << "None" >>

GenerationNext(accounts, thresholds, publics) ==
    \/ \E origin \in Requesters(accounts), id \in ServerKeyIds, threshold \in thresholds :
         /\ OnlyService("generation")
         /\ generate_server_key(origin, id, threshold)
         /\ UNCHANGED << setVars, block_number, storeVars, retrievalVars, shadowVars >>
    \/ \E origin \in accounts, id \in ServerKeyIds, server_key_public \in publics :
         /\ InUse("generation", id)
         /\ server_key_generated(origin, id, server_key_public)
         /\ UNCHANGED << setVars, block_number, storeVars, retrievalVars, shadowVars >>
    \/ \E origin \in accounts, id \in ServerKeyIds :
         /\ InUse("generation", id)
         /\ server_key_generation_error(origin, id)
         /\ UNCHANGED << setVars, block_number, storeVars, retrievalVars, shadowVars >>

StoreNext(accounts) ==
    \/ \E origin \in Requesters(accounts), id \in ServerKeyIds, point \in Secrets :
         /\ OnlyService("store")
         /\ store_document_key(origin, id, point, point)
         /\ UNCHANGED << setVars, block_number, genVars, retrievalVars, shadowVars >>
    \/ \E origin \in accounts, id \in ServerKeyIds :
         /\ InUse("store", id)
         /\ document_key_stored(origin, id)
         /\ UNCHANGED << setVars, block_number, genVars, retrievalVars, shadowVars >>
    \/ \E origin \in accounts, id \in ServerKeyIds :
         /\ InUse("store", id)
         /\ document_key_store_error(origin, id)
         /\ UNCHANGED << setVars, block_number, genVars, retrievalVars, shadowVars >>

RetrievalNext(accounts) ==
    \/ \E origin \in Requesters(accounts), id \in ServerKeyIds :
         /\ OnlyService("retrieval")
         /\ key_servers_count <= MaxRetrievalGenesis
         /\ retrieve_server_key(origin, id)
         /\ UNCHANGED << setVars, block_number, genVars, storeVars, shadowVars >>
    \/ \E origin \in accounts, id \in ServerKeyIds,
          server_key_public \in Publics, threshold \in Thresholds :
         /\ InUse("retrieval", id)
         /\ server_key_retrieved(origin, id, server_key_public, threshold)
         /\ UNCHANGED << setVars, block_number, genVars, storeVars, shadowVars >>
    \/ \E origin \in accounts, id \in ServerKeyIds :
         /\ InUse("retrieval", id)
         /\ server_key_retrieval_error(origin, id)
         /\ UNCHANGED << setVars, block_number, genVars, storeVars, shadowVars >>

ShadowNext(accounts) ==
    \/ \E origin \in Requesters(accounts), id \in ServerKeyIds, owner \in FeePayers :
         /\ OnlyService("shadow")
         /\ key_servers_count <= MaxShadowGenesis
         /\ retrieve_document_key_shadow(origin, id, public_of(owner))
         /\ UNCHANGED << setVars, block_number, genVars, storeVars, retrievalVars >>
    \/ \E origin \in accounts, id \in ServerKeyIds,
          common_point \in Publics, threshold \in Thresholds :
         /\ InUse("shadow", << id, REQUESTER1 >>)
         /\ document_key_common_retrieved(origin, id, REQUESTER1, common_point, threshold)
         /\ UNCHANGED << setVars, block_number, genVars, storeVars, retrievalVars >>
    \/ \E origin \in accounts, id \in ServerKeyIds, decrypted_secret \in Secrets,
          participants \in {existing_servers_mask(CurrentKeyServers), {0}} :
         /\ InUse("shadow", << id, REQUESTER1 >>)
         /\ document_key_personal_retrieved(origin, id, REQUESTER1, participants,
                                            decrypted_secret)
         /\ UNCHANGED << setVars, block_number, genVars, storeVars, retrievalVars >>
    \/ \E origin \in accounts, id \in ServerKeyIds :
         /\ InUse("shadow", << id, REQUESTER1 >>)
         /\ document_key_shadow_retrieval_error(origin, id, REQUESTER1)
         /\ UNCHANGED << setVars, block_number, genVars, storeVars, retrievalVars >>

\* Calls of the owner while the set is not initialized.
UninitializedNext(accounts) ==
    \/ \E caller \in accounts, id \in AddableKeyServerIds :
         /\ Cardinality(DOMAIN NewKeyServers) < NumServers
         /\ add_key_server(caller, id)
         /\ UNCHANGED << block_number, taskVars, histVars >>
    \/ \E caller \in accounts, id \in AddableKeyServerIds :
         /\ remove_key_server(caller, id)
         /\ UNCHANGED << block_number, taskVars, histVars >>

\* Calls of the owner and of the key servers once the set is initialized.
MigrationNext(accounts) ==
    \/ \E caller \in accounts, id \in MigrationKeyServerIds :
         /\ Cardinality(DOMAIN NewKeyServers) < MaxKeyServers
         /\ add_key_server(caller, id)
         /\ UNCHANGED << block_number, taskVars, histVars >>
    \/ \E caller \in accounts, id \in MigrationKeyServerIds :
         /\ remove_key_server(caller, id)
         /\ UNCHANGED << block_number, taskVars, histVars >>
    \/ \E caller \in accounts, migration_id \in MigrationIds :
         /\ start_migration(caller, migration_id)
         /\ UNCHANGED << block_number, taskVars, histVars >>
    \/ \E caller \in accounts, migration_id \in ConfirmedMigrationIds :
         /\ confirm_migration(caller, migration_id)
         /\ MigrationHistory
         /\ UNCHANGED << block_number, taskVars >>
    \/ /\ next_block
       /\ UNCHANGED << setVars, taskVars, histVars >>

\* The callers of a run with a fixed key server set: the requester, the key
\* servers of the set and one key server outside of it.
FixedAccounts ==
    {REQUESTER1} \cup
    {id \in AllKeyServerIds : id <= KEY_SERVER0 + Cardinality(DOMAIN CurrentKeyServers)}
UninitializedAccounts == AddableKeyServerIds \cup {OWNER}
MigrationAccounts == MigrationKeyServerIds \cup {OWNER}

InitFixed == \E n \in 1 .. MaxGenesis : InitStorage(n, TRUE)
InitUninitialized == \E n \in 0 .. NumServers : InitStorage(n, FALSE)
InitMigration == \E n \in 1 .. MaxKeyServers : InitStorage(n, TRUE)

\* Fixed key server set: the unanimity services, the majority services.
UnanimityNext ==
    GenerationNext(FixedAccounts, Thresholds, Publics) \/ StoreNext(FixedAccounts)
MajorityNext == RetrievalNext(FixedAccounts) \/ ShadowNext(FixedAccounts)
SpecUnanimity == InitFixed /\ [][UnanimityNext]_vars
SpecMajority == InitFixed /\ [][MajorityNext]_vars
SpecRetrieval == InitFixed /\ [][RetrievalNext(FixedAccounts)]_vars
SpecShadow == InitFixed /\ [][ShadowNext(FixedAccounts)]_vars
Spec == InitFixed /\ [][UnanimityNext \/ MajorityNext]_vars

\* The owner changes a set that is not initialized.
UninitializedSetNext ==
    \/ UninitializedNext(UninitializedAccounts)
    \/ GenerationNext(UninitializedAccounts, {0}, Publics \ {0})
SpecUninitialized == InitUninitialized /\ [][UninitializedSetNext]_vars

\* The lists of pending requests are filled: one key server, so that a
\* report decides a request at once, and the key ids 1 .. cap + 1 of the
\* service.  On the two lists of 8 requests the key ids are first used in
\* ascending order and are not used again once their request is decided.
QueueKeyIds == 1 .. MaxQueueKeys
QueueCap(task) ==
    CASE task = "generation" -> GenMaxRequests
      [] task = "store" -> StoreMaxRequests
      [] task = "retrieval" -> RetrievalMaxRequests
      [] task = "shadow" -> ShadowMaxRequests
QueueIds(task) == 1 .. (QueueCap(task) + 1)
InitQueue ==
    /\ InitStorageOf(1, TRUE, QueueKeyIds, QueueKeyIds \X {REQUESTER1})
    /\ FreeOfCharge
OnlyQueue(task) ==
    \A t \in Tasks \ {task} : \A id \in DOMAIN outcome[t] : outcome[t][id] = << "None" >>
QueueSubmitted(task, id) ==
    /\ OnlyQueue(task)
    /\ QueueCap(task) > GenMaxRequests =>
         /\ outcome[task][id] \in {<< "None" >>, << "Pending" >>}
         /\ IF id = 1 THEN TRUE ELSE outcome[task][id - 1] # << "None" >>
QueueNext ==
    \/ \E id \in QueueIds("generation") :
         /\ QueueSubmitted("generation", id)
         /\ generate_server_key(REQUESTER1, id, 0)
         /\ UNCHANGED << setVars, block_number, storeVars, retrievalVars, shadowVars >>
    \/ \E id \in QueueIds("generation") :
         /\ InUse("generation", id)
         /\ server_key_generated(KEY_SERVER0, id, 1)
         /\ UNCHANGED << setVars, block_number, storeVars, retrievalVars, shadowVars >>
    \/ \E id \in QueueIds("generation") :
         /\ InUse("generation", id)
         /\ server_key_generation_error(KEY_SERVER0, id)
         /\ UNCHANGED << setVars, block_number, storeVars, retrievalVars, shadowVars >>
    \/ \E id \in QueueIds("store") :
         /\ QueueSubmitted("store", id)
         /\ store_document_key(REQUESTER1, id, 1, 1)
         /\ UNCHANGED << setVars, block_number, genVars, retrievalVars, shadowVars >>
    \/ \E id \in QueueIds("store") :
         /\ InUse("store", id)
         /\ document_key_store_error(KEY_SERVER0, id)
         /\ UNCHANGED << setVars, block_number, genVars, retrievalVars, shadowVars >>
    \/ \E id \in QueueIds("retrieval") :
         /\ QueueSubmitted("retrieval", id)
         /\ retrieve_server_key(REQUESTER1, id)
         /\ UNCHANGED << setVars, block_number, genVars, storeVars, shadowVars >>
    \/ \E id \in QueueIds("retrieval") :
         /\ InUse("retrieval", id)
         /\ server_key_retrieval_error(KEY_SERVER0, id)
         /\ UNCHANGED << setVars, block_number, genVars, storeVars, shadowVars >>
    \/ \E id \in QueueIds("shadow") :
         /\ QueueSubmitted("shadow", << id, REQUESTER1 >>)
         /\ retrieve_document_key_shadow(REQUESTER1, id, public_of(REQUESTER1))
         /\ UNCHANGED << setVars, block_number, genVars, storeVars, retrievalVars >>
    \/ \E id \in QueueIds("shadow") :
         /\ InUse("shadow", << id, REQUESTER1 >>)
         /\ document_key_shadow_retrieval_error(KEY_SERVER0, id, REQUESTER1)
         /\ UNCHANGED << setVars, block_number, genVars, storeVars, retrievalVars >>
SpecQueue == InitQueue /\ [][QueueNext]_vars

\* The set is initialized and changes by migrations.
MigrationSetNext ==
    \/ MigrationNext(MigrationAccounts)
    \/ StoreNext(MigrationAccounts)
SpecMigration == InitMigration /\ [][MigrationSetNext]_vars

\* The owner fills a set of one key server up to the last index, as the
\* test should_fail_when_trying_to_add_more_than_256_key_servers does.  Once
\* the set is nearly full the owner removes and adds the spare key servers and
\* those at the first and the last index of either word of the mask.
SpareKeyServerIds == (KEY_SERVER0 + SlotCount) .. (KEY_SERVER0 + SlotCount + NumSpareServers - 1)
EdgeKeyServerIds ==
    {KEY_SERVER0, KEY_SERVER0 + HalfMask - 1, KEY_SERVER0 + HalfMask,
     KEY_SERVER0 + SlotCount - 1}
AppendKeyServerIds == SpareKeyServerIds \cup EdgeKeyServerIds
NearlyFull == Cardinality(DOMAIN NewKeyServers) >= SlotCount - MaxHoles
InitAppend ==
    \E is_initialization_completed \in BOOLEAN :
       /\ InitSet(fill(EmptySet, Genesis(1)), is_initialization_completed)
       /\ InitRequests(ServerKeyIds, ShadowRetrievalIds)
       /\ FreeOfCharge
AppendNext ==
    \/ \E id \in IF NearlyFull THEN AppendKeyServerIds
                  ELSE {KEY_SERVER0 + Cardinality(DOMAIN NewKeyServers)} :
         /\ add_key_server(OWNER, id)
         /\ UNCHANGED << block_number, taskVars, histVars >>
    \/ \E id \in AppendKeyServerIds :
         /\ NearlyFull
         /\ remove_key_server(OWNER, id)
         /\ UNCHANGED << block_number, taskVars, histVars >>
SpecAppend == InitAppend /\ [][AppendNext]_vars

\* The set changes by migrations while a request of generation, of store or
\* of retrieval is pending: the owner submits, the key servers report, start
\* and confirm.
EpochNext ==
    \/ \E id \in MigrationKeyServerIds :
         /\ Cardinality(DOMAIN NewKeyServers) < MaxKeyServers
         /\ add_key_server(OWNER, id)
         /\ UNCHANGED << block_number, taskVars, histVars >>
    \/ \E id \in MigrationKeyServerIds :
         /\ remove_key_server(OWNER, id)
         /\ UNCHANGED << block_number, taskVars, histVars >>
    \/ \E caller \in MigrationKeyServerIds, migration_id \in MigrationIds :
         /\ start_migration(caller, migration_id)
         /\ UNCHANGED << block_number, taskVars, histVars >>
    \/ \E caller \in MigrationKeyServerIds, migration_id \in MigrationIds :
         /\ confirm_migration(caller, migration_id)
         /\ MigrationHistory
         /\ UNCHANGED << block_number, taskVars >>
    \/ GenerationNext(MigrationAccounts, {0}, {1})
    \/ StoreNext(MigrationAccounts)
    \/ \E id \in ServerKeyIds :
         /\ OnlyService("retrieval")
         /\ retrieve_server_key(OWNER, id)
         /\ UNCHANGED << setVars, block_number, genVars, storeVars, shadowVars >>
    \/ \E origin \in MigrationKeyServerIds, id \in ServerKeyIds :
         /\ InUse("retrieval", id)
         /\ server_key_retrieved(origin, id, 1, 0)
         /\ UNCHANGED << setVars, block_number, genVars, storeVars, shadowVars >>
SpecEpoch == InitMigration /\ [][EpochNext]_vars

\* The services charge a fee.  REQUESTER1 has claimed an id, REQUESTER2 has
\* not; both may hold funds.  The key servers fail the requests.
FeeCallers == {REQUESTER1, REQUESTER2}
FeeThresholds == {0, MaxThreshold}
FeeOrders == { << KEY_SERVER0, KEY_SERVER0 + 1 >>, << KEY_SERVER0 + 1, KEY_SERVER0 >> }
InitFee ==
    \E n \in 1 .. MaxFeeGenesis, funds1 \in 0 .. MaxFunds, funds2 \in 0 .. MaxFunds,
       iter \in FeeOrders :
       /\ InitStorageOf(n, TRUE, ServerKeyIds, ShadowRetrievalIds)
       /\ InitFees(ServiceFee,
                   [a \in Holders |-> IF a = REQUESTER1 THEN funds1
                                      ELSE IF a = REQUESTER2 THEN funds2 ELSE 0],
                   iter)
FeeNext ==
    \/ \E origin \in FeeCallers, id \in ServerKeyIds, threshold \in FeeThresholds :
         /\ OnlyService("generation")
         /\ generate_server_key(origin, id, threshold)
         /\ UNCHANGED << setVars, block_number, storeVars, retrievalVars, shadowVars >>
    \/ \E id \in ServerKeyIds :
         /\ InUse("generation", id)
         /\ server_key_generation_error(KEY_SERVER0, id)
         /\ UNCHANGED << setVars, block_number, storeVars, retrievalVars, shadowVars >>
    \/ \E origin \in FeeCallers, id \in ServerKeyIds :
         /\ OnlyService("store")
         /\ store_document_key(origin, id, 1, 1)
         /\ UNCHANGED << setVars, block_number, genVars, retrievalVars, shadowVars >>
    \/ \E id \in ServerKeyIds :
         /\ InUse("store", id)
         /\ document_key_store_error(KEY_SERVER0, id)
         /\ UNCHANGED << setVars, block_number, genVars, retrievalVars, shadowVars >>
    \/ \E origin \in FeeCallers, id \in ServerKeyIds :
         /\ OnlyService("retrieval")
         /\ retrieve_server_key(origin, id)
         /\ UNCHANGED << setVars, block_number, genVars, storeVars, shadowVars >>
    \/ \E origin \in FeeCallers, id \in ServerKeyIds, owner \in FeeCallers :
         /\ OnlyService("shadow")
         /\ retrieve_document_key_shadow(origin, id, public_of(owner))
         /\ UNCHANGED << setVars, block_number, genVars, storeVars, retrievalVars >>
SpecFee == InitFee /\ [][FeeNext]_vars

\* The owner changes a set that is not initialized while a request of the
\* document key store or of the document key shadow retrieval is pending.
\* The key servers report one common point, and personal data for the whole
\* current set.
UninitializedRequestsNext ==
    \/ \E id \in AddableKeyServerIds :
         /\ Cardinality(DOMAIN NewKeyServers) < NumServers
         /\ add_key_server(OWNER, id)
         /\ UNCHANGED << block_number, taskVars, histVars >>
    \/ \E id \in AddableKeyServerIds :
         /\ remove_key_server(OWNER, id)
         /\ UNCHANGED << block_number, taskVars, histVars >>
    \/ StoreNext(UninitializedAccounts)
    \/ \E id \in ServerKeyIds :
         /\ OnlyService("shadow")
         /\ retrieve_document_key_shadow(REQUESTER1, id, public_of(REQUESTER1))
         /\ UNCHANGED << setVars, block_number, genVars, storeVars, retrievalVars >>
    \/ \E origin \in AddableKeyServerIds, id \in ServerKeyIds :
         /\ InUse("shadow", << id, REQUESTER1 >>)
         /\ document_key_common_retrieved(origin, id, REQUESTER1, 1, 0)
         /\ UNCHANGED << setVars, block_number, genVars, storeVars, retrievalVars >>
    \/ \E origin \in AddableKeyServerIds, id \in ServerKeyIds :
         /\ InUse("shadow", << id, REQUESTER1 >>)
         /\ document_key_personal_retrieved(origin, id, REQUESTER1,
                                            existing_servers_mask(CurrentKeyServers), 1)
         /\ UNCHANGED << setVars, block_number, genVars, storeVars, retrievalVars >>
SpecUninitializedRequests == InitUninitialized /\ [][UninitializedRequestsNext]_vars

\* The life of the key server set: the owner edits a set that is not
\* initialized, completes the initialization and edits the new set; the key
\* servers migrate.  No request is submitted.
InitSetLife == \E n \in 0 .. MaxKeyServers : InitStorage(n, FALSE)
SetNext ==
    \/ \E caller \in MigrationAccounts, id \in MigrationKeyServerIds :
         /\ Cardinality(DOMAIN NewKeyServers) < MaxKeyServers
         /\ add_key_server(caller, id)
         /\ UNCHANGED << block_number, taskVars, histVars >>
    \/ \E caller \in MigrationAccounts, id \in MigrationKeyServerIds :
         /\ remove_key_server(caller, id)
         /\ UNCHANGED << block_number, taskVars, histVars >>
    \/ \E caller \in MigrationAccounts :
         /\ complete_initialization(caller)
         /\ UNCHANGED << block_number, taskVars, histVars >>
    \/ \E caller \in MigrationAccounts, migration_id \in MigrationIds :
         /\ start_migration(caller, migration_id)
         /\ UNCHANGED << block_number, taskVars, histVars >>
    \/ \E caller \in MigrationAccounts, migration_id \in MigrationIds :
         /\ confirm_migration(caller, migration_id)
         /\ UNCHANGED << block_number, taskVars, histVars >>
    \/ /\ next_block
       /\ UNCHANGED << setVars, taskVars, histVars >>
SpecSet == InitSetLife /\ [][SetNext]_vars

\* The life of the key server set when no key server of the migration set
\* withholds for ever the confirmation of the active migration.
SpecSetLive ==
    /\ SpecSet
    /\ \A id \in MigrationKeyServerIds :
          WF_vars(/\ IsSome(MigrationId)
                  /\ CanConfirmMigration(id, Unwrap(MigrationId)[1])
                  /\ confirm_migration(id, Unwrap(MigrationId)[1])
                  /\ UNCHANGED << block_number, taskVars, histVars >>)

\* The life of the key server set while the owner asks to store document keys
\* and the key servers report them stored.
SpecStoreLife ==
    /\ InitSetLife
    /\ [][\/ SetNext
          \/ \E id \in ServerKeyIds :
               /\ store_document_key(OWNER, id, 1, 1)
               /\ UNCHANGED << setVars, block_number, genVars, retrievalVars, shadowVars >>
          \/ \E origin \in MigrationKeyServerIds, id \in ServerKeyIds :
               /\ InUse("store", id)
               /\ document_key_stored(origin, id)
               /\ UNCHANGED << setVars, block_number, genVars, retrievalVars, shadowVars >>]_vars

\* ------------------------------------------------------------ properties
Pending(task, id) == outcome[task][id] = << "Pending" >>
\* The key servers whose first report on the request is the given one.
Voters(task, id, report) ==
    {s \in DOMAIN votes[task][id] : votes[task][id][s] = report}
Listed(keys, id) == \E i \in 1 .. Len(keys) : keys[i] = id

\* C9: for server key generation and document key store, an error report of
\* a current key server on a pending request deletes the request with all
\* its support and deposits exactly one failure event, whatever was reported
\* before and whatever the requested threshold.
C9_ErrorReportIsFatal ==
    [][\A origin \in Accounts, id \in ServerKeyIds :
        /\ ( /\ contains(CurrentKeyServers, origin)
             /\ IsSome(ServerKeyGenerationRequests[id])
             /\ server_key_generation_error(origin, id) )
           => /\ ServerKeyGenerationRequests'[id] = None
              /\ ServerKeyGenerationResponses'[id] = NoSupport
              /\ ~ Listed(ServerKeyGenerationRequestsKeys', id)
              /\ events' = << Event("ServerKeyGenerationError", id, 0, 0) >>
        /\ ( /\ contains(CurrentKeyServers, origin)
             /\ IsSome(DocumentKeyStoreRequests[id])
             /\ document_key_store_error(origin, id) )
           => /\ DocumentKeyStoreRequests'[id] = None
              /\ DocumentKeyStoreResponses'[id] = NoSupport
              /\ ~ Listed(DocumentKeyStoreRequestsKeys', id)
              /\ events' = << Event("DocumentKeyStoreError", id, 0, 0) >>
      ]_vars

\* An error report has ended a generation request of threshold 0 that held
\* the value of another key server.
C9_Witness ==
    \E id \in ServerKeyIds :
        /\ outcome["generation"][id] = << "Failure" >>
        /\ events = << Event("ServerKeyGenerationError", id, 0, 0) >>
        /\ ServerKeyGenerationRequests[id] = None
        /\ Voters("generation", id, Error(0)) # {}
        /\ \E v \in Publics : Voters("generation", id, Value(v)) # {}

\* C6 as stated: with 5 key servers a generation request is confirmed with
\* V as soon as 3 of them have reported V.
C6_ConfirmedByThreeOfFive ==
    \A id \in ServerKeyIds, v \in Publics :
        ( /\ key_servers_count = 5
          /\ Cardinality(Voters("generation", id, Value(v))) >= 3 )
        => outcome["generation"][id] = << "Success", v >>

\* C6 amended: with 5 key servers a generation request is confirmed with V
\* exactly when all 5 have reported V; while only 3 or 4 of them have
\* reported V it is not confirmed, and once it is confirmed a further report
\* changes nothing.
C6_ConfirmedByFiveOfFive ==
    \A id \in ServerKeyIds, v \in Publics :
        key_servers_count = 5 =>
          LET voters == Voters("generation", id, Value(v)) IN
          /\ outcome["generation"][id] = << "Success", v >>
                <=> Cardinality(voters) = 5
          /\ Cardinality(voters) \in {3, 4}
                => outcome["generation"][id] \in {<< "Pending" >>, << "Failure" >>}
          /\ outcome["generation"][id] = << "Success", v >>
             => \A origin \in Accounts, w \in Publics :
                  on_generated(GenStorage, origin, id, w) = Done(GenStorage, << >>)

\* All 5 key servers have reported the same value and the key is published.
C6_Witness ==
    \E id \in ServerKeyIds, v \in Publics :
        /\ key_servers_count = 5
        /\ Cardinality(Voters("generation", id, Value(v))) = 5
        /\ outcome["generation"][id] = << "Success", v >>
        /\ events = << Event("ServerKeyGenerated", id, v, 0) >>

\* C8: in server key generation with at least 2 key servers, the first
\* accepted report whose value differs from an earlier accepted one ends the
\* request at that very report: it is deleted and the failure event is
\* deposited.
C8_DifferentValueIsFatal ==
    [][\A id \in ServerKeyIds, origin \in AllKeyServerIds, v \in Publics, w \in Publics :
        ( /\ key_servers_count >= 2
          /\ Pending("generation", id)
          /\ origin \notin DOMAIN votes["generation"][id]
          /\ origin \in DOMAIN votes'["generation"][id]
          /\ votes'["generation"][id][origin] = Value(v)
          /\ w # v
          /\ Voters("generation", id, Value(w)) # {} )
        => /\ outcome'["generation"][id] = << "Failure" >>
           /\ ServerKeyGenerationRequests'[id] = None
           /\ ServerKeyGenerationResponses'[id] = NoSupport
           /\ ~ Listed(ServerKeyGenerationRequestsKeys', id)
           /\ events' = << Event("ServerKeyGenerationError", id, 0, 0) >>
      ]_vars

\* Two of at least 4 key servers have reported different values and the
\* request has failed.
C8_Witness ==
    \E id \in ServerKeyIds, v \in Publics, w \in Publics :
        /\ key_servers_count >= 4
        /\ v # w
        /\ Voters("generation", id, Value(v)) # {}
        /\ Voters("generation", id, Value(w)) # {}
        /\ Cardinality(DOMAIN votes["generation"][id]) = 2
        /\ outcome["generation"][id] = << "Failure" >>
        /\ events = << Event("ServerKeyGenerationError", id, 0, 0) >>

\* The engine returns Impossible on a first report that does not confirm
\* exactly when no reported value can still get threshold + 1 supporters.
EngineAgrees(key_server_index, threshold, responses, table, response) ==
    LET ins == insert_response(key_server_index, threshold, responses, table, response)
        stale == /\ responses.responded_key_servers_count # 0
                 /\ responses.key_servers_change_block # CurrentSetChangeBlock
        first_report == stale \/ ~ is_set(responses.responded_key_servers_mask,
                                          key_server_index)
        left == Cardinality(DOMAIN CurrentKeyServers)
                    - ins.responses.responded_key_servers_count
        out_of_reach == \A v \in DOMAIN ins.support :
                            ins.support[v] + left < threshold + 1
    IN (first_report /\ ins.support_result # "Confirmed")
           => /\ ins.support_result \in {"Impossible", "Unconfirmed"}
              /\ ins.support_result = "Impossible" <=> out_of_reach

\* C2: a first report that does not itself confirm makes insert_response
\* return Impossible exactly when, for every reported value v,
\* support(v) + (N - responded_count) < required_threshold + 1, N being the
\* size of the current set; otherwise it returns Unconfirmed.
C2_ImpossibleWhenOutOfReach ==
    \A origin \in DOMAIN CurrentKeyServers, id \in ServerKeyIds :
      LET index == CurrentKeyServers[origin] IN
      /\ IsSome(ServerKeyGenerationRequests[id]) =>
           \A v \in Publics :
             EngineAgrees(index, U8(key_servers_count - 1),
                          Unwrap(ServerKeyGenerationRequests[id]).responses,
                          ServerKeyGenerationResponses[id], v)
      /\ IsSome(DocumentKeyStoreRequests[id]) =>
             EngineAgrees(index, U8(key_servers_count - 1),
                          Unwrap(DocumentKeyStoreRequests[id]).responses,
                          DocumentKeyStoreResponses[id], 0)
      /\ IsSome(ServerKeyRetrievalRequests[id]) =>
           \A v \in Publics, t \in Thresholds :
             /\ EngineAgrees(index, key_servers_count \div 2,
                             Unwrap(ServerKeyRetrievalRequests[id]).threshold_responses,
                             ServerKeyRetrievalThresholdResponses[id], t)
             /\ EngineAgrees(index, t,
                             Unwrap(ServerKeyRetrievalRequests[id]).responses,
                             ServerKeyRetrievalResponses[id], v)
      /\ \A requester \in FeePayers :
           IsSome(DocumentKeyShadowRetrievalRequests[<< id, requester >>]) =>
             \A v \in Publics, t \in Thresholds :
               EngineAgrees(index, key_servers_count \div 2,
                   Unwrap(DocumentKeyShadowRetrievalRequests[<< id, requester >>]).common_responses,
                   DocumentKeyShadowRetrievalCommonResponses[<< id, requester >>],
                   << v, t >>)

\* Every key server of the set has a first report of the value on record.
AllReported(set, reports, value) ==
    \A s \in DOMAIN set : s \in DOMAIN reports /\ reports[s] = Value(value)

\* C7: a server key generation request and a document key store request
\* succeed exactly at the report after which all N key servers of the
\* current set have reported the same value since the set last changed,
\* never while fewer than N of them have reported.
C7_SuccessExactlyWhenUnanimous ==
    [][\A task \in {"generation", "store"}, id \in ServerKeyIds, v \in Publics :
        /\ (Pending(task, id) /\ outcome'[task][id] = << "Success", v >>)
              => AllReported(CurrentKeyServers', votes'[task][id], v)
        /\ ( /\ Pending(task, id)
             /\ votes'[task][id] # votes[task][id]
             /\ AllReported(CurrentKeyServers', votes'[task][id], v) )
              => outcome'[task][id] = << "Success", v >>
      ]_vars

\* C4: when a migration is completed, every key server of the new current
\* set is required again for every pending request, and a request decided
\* afterwards is decided by the reports delivered since.
C4_MigrationStartsNewRound ==
    [][/\ (IsSome(MigrationId) /\ MigrationId' = None) =>
            \A id \in ServerKeyIds, s \in DOMAIN CurrentKeyServers' :
              /\ IsSome(ServerKeyGenerationRequests'[id])
                    => is_response_required(
                           s, Unwrap(ServerKeyGenerationRequests[id]).responses)'
              /\ IsSome(DocumentKeyStoreRequests'[id])
                    => is_response_required(
                           s, Unwrap(DocumentKeyStoreRequests[id]).responses)'
              /\ IsSome(ServerKeyRetrievalRequests'[id])
                    => is_response_required(
                           s, Unwrap(ServerKeyRetrievalRequests[id]).threshold_responses)'
       /\ \A task \in {"generation", "store"}, id \in ServerKeyIds, v \in Publics :
            (Pending(task, id) /\ outcome'[task][id] = << "Success", v >>)
               => AllReported(CurrentKeyServers', votes'[task][id], v)
      ]_vars

\* The storage of a service, and the responded counts of one of its requests.
StorageOf(task) ==
    CASE task = "generation" -> GenStorage
      [] task = "store" -> StoreStorage
      [] task = "retrieval" -> RetrievalStorage
      [] task = "shadow" -> ShadowStorage
RespondedCounts(task, request) ==
    CASE task = "retrieval" ->
            << request.threshold_responses.responded_key_servers_count,
               request.responses.responded_key_servers_count >>
      [] task = "shadow" -> << request.common_responses.responded_key_servers_count >>
      [] OTHER -> << request.responses.responded_key_servers_count >>

\* C3: for every service, a repeated report of a key server on a pending
\* request leaves the responded counts unchanged, and the outcome of the
\* request with its published value is the one of the run in which no
\* report is repeated.
C3_RepeatedReportChangesNothing ==
    \A task \in Tasks : \A id \in TaskIds(task) :
        InUse(task, id) =>
          /\ (outcome[task][id] # << "Pending" >> /\ ideal.outcome # << "Pending" >>)
                => outcome[task][id] = ideal.outcome
          /\ (IsSome(StorageOf(task).requests[id]) /\ IsSome(ideal.st.requests[id]))
                => RespondedCounts(task, Unwrap(StorageOf(task).requests[id]))
                     = RespondedCounts(task, Unwrap(ideal.st.requests[id]))

\* What a key server may report on a request of the service.
Reports(task) ==
    CASE task = "generation" -> {Value(v) : v \in Publics} \cup {Error(0)}
      [] task = "store" -> {Value(0), Error(0)}
      [] OTHER -> {Value(x) : x \in Publics \X Thresholds}
                      \cup {Error(<< 0, INVALID_THRESHOLD >>)}
\* The call that delivers the report, on the storage st of the service.
Deliver(task, st, origin, id, report) ==
    CASE task = "generation" /\ report.kind = "value" ->
            on_generated(st, origin, id, report.value)
      [] task = "generation" /\ report.kind = "error" ->
            on_generation_error(st, origin, id)
      [] task = "store" /\ report.kind = "value" -> on_stored(st, origin, id)
      [] task = "store" /\ report.kind = "error" -> on_store_error(st, origin, id)
      [] task = "retrieval" /\ report.kind = "value" ->
            on_retrieved(st, origin, id, report.value[1], report.value[2])
      [] task = "retrieval" /\ report.kind = "error" ->
            on_retrieval_error(st, origin, id)
      [] task = "shadow" /\ report.kind = "value" ->
            on_common_retrieved(st, origin, id[1], id[2],
                                report.value[1], report.value[2])
      [] task = "shadow" /\ report.kind = "error" ->
            shadow_on_retrieval_error(st, origin, id[1], id[2])
\* The run h of a request, continued by one report.
After(task, id, h, origin, report) ==
    LET r == Deliver(task, h.st, origin, id, report)
    IN [st |-> r.st, outcome |-> Decided(h.outcome, task, r.events)]

\* The outcomes of the run h of a request continued by the reports, one per
\* key server of the domain of reports, over every order of delivery.  An
\* outcome that is decided is final.
RECURSIVE Outcomes(_, _, _, _)
Outcomes(task, id, h, reports) ==
    IF DOMAIN reports = {} \/ h.outcome # << "Pending" >>
    THEN {h.outcome}
    ELSE UNION { Outcomes(task, id, After(task, id, h, s, reports[s]),
                          [k \in DOMAIN reports \ {s} |-> reports[k]])
                   : s \in DOMAIN reports }
\* On a request that has just been submitted, every choice of reports of any
\* of the key servers, taken from the allowed ones, has one outcome, whatever
\* the order of delivery.
OrderIsIrrelevant(task, allowed) ==
    \A id \in TaskIds(task) :
        ( /\ IsSome(StorageOf(task).requests[id])
          /\ Pending(task, id)
          /\ votes[task][id] = EmptySet ) =>
          \A servers \in SUBSET DOMAIN CurrentKeyServers :
          \A reports \in [servers -> allowed] :
             Cardinality(Outcomes(task, id,
                                  [st |-> StorageOf(task), outcome |-> << "Pending" >>],
                                  reports)) = 1

Published(task, value) == IF task = "retrieval" THEN value[1] ELSE value
Majority == (key_servers_count \div 2) + 1

KeyVoters(reports, key) == {s \in DOMAIN reports : reports[s].value[1] = key}
ThresholdVoters(reports, threshold) ==
    {s \in DOMAIN reports : reports[s].value[2] = threshold}
\* A report is accepted that brings the threshold t to its majority, before
\* which no threshold had one and P1 had t + 1 reports of (P1, t).
Stabilized(id, p1, t) ==
    /\ Pending("retrieval", id)
    /\ \A t2 \in Thresholds :
          /\ Cardinality(ThresholdVoters(votes["retrieval"][id], t2)) < Majority
          /\ Cardinality(ThresholdVoters(votes["retrieval"][id], t2))
                <= Cardinality(ThresholdVoters(votes["retrieval"][id], t))
    /\ Cardinality(Voters("retrieval", id, Value(<< p1, t >>))) >= t + 1
    /\ votes'["retrieval"][id] # votes["retrieval"][id]
    /\ Cardinality(ThresholdVoters(votes'["retrieval"][id], t)) = Majority

\* C10 as stated: if P1 has t + 1 supporters for the leading threshold t
\* while the threshold is not confirmed, the report that confirms t
\* publishes P1, whatever it carries.
C10_StabilizedKeyIsPublished ==
    [][\A id \in ServerKeyIds, p1 \in Publics, t \in Thresholds :
          Stabilized(id, p1, t) => outcome'["retrieval"][id] = << "Success", p1 >>
      ]_vars

\* C10 amended: the report that confirms t publishes a key at once: its
\* own key if that report makes it a most supported key, and P1 if P1 is
\* then the only most supported key and none of its supporters claimed the
\* invalid threshold.
C10_StabilizedOrOwnKeyIsPublished ==
    [][\A id \in ServerKeyIds, p1 \in Publics, t \in Thresholds :
          Stabilized(id, p1, t) =>
            LET reports == votes'["retrieval"][id]
                Support(key) == Cardinality(KeyVoters(reports, key))
                reporter == CHOOSE s \in DOMAIN reports : s \notin DOMAIN votes["retrieval"][id]
                own == reports[reporter].value[1]
            IN /\ outcome'["retrieval"][id][1] = "Success"
               /\ (\A key \in Publics : Support(key) <= Support(own))
                     => outcome'["retrieval"][id] = << "Success", own >>
               /\ ( /\ \A key \in Publics \ {p1} : Support(key) < Support(p1)
                    /\ \A s \in KeyVoters(reports, p1) :
                          reports[s].value[2] # INVALID_THRESHOLD )
                     => outcome'["retrieval"][id] = << "Success", p1 >>
      ]_vars

\* Two of 4 key servers have reported (P1, 0) and (P1, 1), two others have
\* reported other keys with the threshold 0, the last of them bringing the
\* threshold 0 to its majority of 3, and P1 is published.
C10_Witness ==
    \E id \in ServerKeyIds, p1 \in Publics :
        LET reports == votes["retrieval"][id] IN
        /\ key_servers_count = 4
        /\ Cardinality(DOMAIN reports) = 4
        /\ Cardinality(Voters("retrieval", id, Value(<< p1, 0 >>))) = 1
        /\ Cardinality(Voters("retrieval", id, Value(<< p1, 1 >>))) = 1
        /\ Cardinality(ThresholdVoters(reports, 0)) = 3
        /\ \A key \in Publics \ {p1} : Cardinality(KeyVoters(reports, key)) = 1
        /\ outcome["retrieval"][id] = << "Success", p1 >>
        /\ events = << Event("ServerKeyRetrieved", id, p1, 0) >>

\* The masks of the key servers that a personal report may name as the
\* participants of the decryption.
ParticipantMasks == {existing_servers_mask(CurrentKeyServers), {0}}

\* C11: after the common data of a shadow retrieval request is confirmed with
\* the threshold T, every accepted personal report adds its key server, once,
\* to the group of its (participants, decrypted secret); the request and the
\* groups of the other reports stay as they are until a group has T + 1
\* distinct key servers, and the report that brings a group to T + 1 deletes
\* the request with its list entry and all its common and personal
\* responses.  A rejected personal report changes nothing.
C11_PersonalGroupCompletes ==
    [][\A origin \in FixedAccounts, id \in ServerKeyIds,
          participants \in ParticipantMasks, decrypted_secret \in Secrets :
          LET rid == << id, REQUESTER1 >>
              old == DocumentKeyShadowRetrievalRequests[rid]
              key == << participants, decrypted_secret >>
              group == personal_get(DocumentKeyShadowRetrievalPersonalResponses[rid], key)
          IN ( /\ IsSome(old)
               /\ IsSome(Unwrap(old).threshold)
               /\ document_key_personal_retrieved(origin, id, REQUESTER1,
                                                  participants, decrypted_secret) ) =>
             IF events' = << >>
             THEN UNCHANGED shadowVars
             ELSE /\ events' = << Event("DocumentKeyPersonalRetrieved", id, REQUESTER1,
                                        decrypted_secret) >>
                  /\ contains(CurrentKeyServers, origin)
                  /\ CurrentKeyServers[origin] \in participants
                  /\ CurrentKeyServers[origin] \notin group.participants
                  /\ group.reported_count = Cardinality(group.participants)
                  /\ IF Cardinality(group.participants) + 1 = Unwrap(Unwrap(old).threshold) + 1
                     THEN /\ DocumentKeyShadowRetrievalRequests'[rid] = None
                          /\ ~ Listed(DocumentKeyShadowRetrievalRequestsKeys', rid)
                          /\ DocumentKeyShadowRetrievalCommonResponses'[rid] = NoSupport
                          /\ DocumentKeyShadowRetrievalPersonalResponses'[rid] = NoPersonal
                     ELSE /\ UNCHANGED << DocumentKeyShadowRetrievalRequests,
                                          DocumentKeyShadowRetrievalRequestsKeys,
                                          DocumentKeyShadowRetrievalCommonResponses >>
                          /\ DocumentKeyShadowRetrievalPersonalResponses'[rid] =
                               personal_insert(
                                   DocumentKeyShadowRetrievalPersonalResponses[rid], key,
                                   [group EXCEPT
                                      !.participants = @ \cup {CurrentKeyServers[origin]},
                                      !.reported_count = @ + 1])
      ]_vars

\* The common data were confirmed with the threshold 1 by 3 key servers, and
\* the personal report just delivered, the second of its group, has deleted
\* the request.
C11_Witness ==
    LET rid == << 1, REQUESTER1 >> IN
    /\ key_servers_count = 3
    /\ outcome["shadow"][rid] = << "Success", << 1, 1 >> >>
    /\ DocumentKeyShadowRetrievalRequests[rid] = None
    /\ DocumentKeyShadowRetrievalPersonalResponses[rid] = NoPersonal
    /\ events = << Event("DocumentKeyPersonalRetrieved", 1, REQUESTER1, 1) >>

\* A step of an active migration: the flags of the confirmations are raised
\* by the confirmations of the members only; the step that clears the
\* migration is the confirmation of the last member, it makes the migration
\* set the current set and clears the migration set and the confirmations;
\* any other step leaves the current set, the epoch and the migration as
\* they are, with a member still to confirm.
MigrationStep ==
    /\ \A s \in MigrationConfirmations' \ MigrationConfirmations :
          /\ contains(MigrationKeyServers, s)
          /\ confirm_migration(s, Unwrap(MigrationId)[1])
    /\ IF MigrationId' = None
       THEN /\ \E caller \in DOMAIN MigrationKeyServers \ MigrationConfirmations :
                  /\ DOMAIN MigrationKeyServers \subseteq MigrationConfirmations \cup {caller}
                  /\ confirm_migration(caller, Unwrap(MigrationId)[1])
            /\ CurrentKeyServers' = MigrationKeyServers
            /\ MigrationKeyServers' = EmptySet
            /\ MigrationConfirmations' = {}
       ELSE /\ UNCHANGED << CurrentKeyServers, CurrentSetChangeBlock,
                            MigrationKeyServers, MigrationId >>
            /\ ~ (DOMAIN MigrationKeyServers \subseteq MigrationConfirmations')

\* C12: while a migration is active the current set and the epoch do not
\* change and a confirmation flag is set only for a member that has
\* confirmed, until the last member of the migration set confirms; that
\* confirmation makes the migration set the current set, clears the
\* migration set, the migration record and the confirmations, and gives the
\* epoch a value different from the one it had.
C12_LastConfirmationChangesSetAndEpoch ==
    [][ /\ MigrationId = None => MigrationConfirmations = {}
        /\ IsSome(MigrationId) =>
             /\ MigrationStep
             /\ MigrationId' = None => CurrentSetChangeBlock' # CurrentSetChangeBlock
      ]_vars

C14_ConfirmMigrationRejected ==
    [][\A caller \in MigrationAccounts, migration_id \in ConfirmedMigrationIds :
          confirm_migration(caller, migration_id) =>
            IF \/ MigrationId = None
               \/ Unwrap(MigrationId)[1] # migration_id
               \/ caller \notin DOMAIN MigrationKeyServers
               \/ caller \in MigrationConfirmations
            THEN /\ UNCHANGED setVars
                 /\ events' = << >>
            ELSE \/ /\ MigrationConfirmations' = MigrationConfirmations \cup {caller}
                    /\ Cardinality(MigrationConfirmations')
                         = Cardinality(MigrationConfirmations) + 1
                    /\ UNCHANGED MigrationId
                    /\ events' = << >>
                 \/ /\ MigrationId' = None
                    /\ events' = << Event("MigrationCompleted", 0, 0, 0) >>
      ]_vars

\* One of the two members of the migration set has confirmed, and the call
\* just made (a confirmation of the same member, of the owner, or with
\* another id) was rejected or was that confirmation.
C14_Witness ==
    /\ IsSome(MigrationId)
    /\ Cardinality(DOMAIN MigrationKeyServers) = 2
    /\ Cardinality(MigrationConfirmations) = 1
    /\ events = << >>

\* The list of the pending requests of a service has no key twice, is not
\* longer than the service allows, and holds the keys that have a request.
QueueConsistent(task) ==
    LET st == StorageOf(task) IN
    /\ \A i \in 1 .. Len(st.keys), j \in 1 .. Len(st.keys) :
          st.keys[i] = st.keys[j] => i = j
    /\ Len(st.keys) <= QueueCap(task)
    /\ \A i \in 1 .. Len(st.keys) : st.keys[i] \in DOMAIN st.requests
    /\ \A id \in DOMAIN st.requests : Listed(st.keys, id) <=> IsSome(st.requests[id])
\* A submission to a full list, or for a key that has a request, is rejected.
QueueRejects(task, id, submission) ==
    LET st == StorageOf(task) IN
    ((Len(st.keys) = QueueCap(task) \/ IsSome(st.requests[id])) /\ submission)
       => /\ events' = << >>
          /\ UNCHANGED taskVars

\* C15: for each of the four services, the list of the keys of the pending
\* requests has no duplicates, never holds more than 4 (generation, shadow
\* retrieval) or 8 (retrieval, store) keys and holds a key exactly when a
\* request is stored for it; a submission is rejected when the list is full
\* or when a request of the key is pending.
C15_PendingKeysList ==
    /\ [](\A task \in Tasks : QueueConsistent(task))
    /\ [][\A id \in QueueKeyIds :
             /\ QueueRejects("generation", id, generate_server_key(REQUESTER1, id, 0))
             /\ QueueRejects("store", id, store_document_key(REQUESTER1, id, 1, 1))
             /\ QueueRejects("retrieval", id, retrieve_server_key(REQUESTER1, id))
             /\ QueueRejects("shadow", << id, REQUESTER1 >>,
                             retrieve_document_key_shadow(REQUESTER1, id,
                                                          public_of(REQUESTER1)))
         ]_vars

\* The list of the store requests is full, it holds the key 9, which was
\* accepted after a request was deleted, and the submission just made was
\* rejected.
C15_Witness ==
    /\ Len(DocumentKeyStoreRequestsKeys) = StoreMaxRequests
    /\ DocumentKeyStoreRequestsKeys[StoreMaxRequests] = MaxQueueKeys
    /\ events = << >>

\* A call returns without any effect: the storage of its service as it was,
\* no event, no balance moved.
NoEffect(r, st) ==
    /\ r.st = st
    /\ r.events = << >>
    /\ "balances" \in DOMAIN r => r.balances = balances

\* C16: a submission (generate, retrieve, store, shadow retrieve) that is
\* rejected, for whatever reason, leaves the whole state unchanged: no
\* request record, no list entry, no balance moved to any key server and
\* no notification.
C16_RejectedSubmissionChangesNothing ==
    \A origin \in FeeCallers, id \in ServerKeyIds :
       /\ \A threshold \in FeeThresholds :
             \E r \in {generate(GenStorage, origin, id, threshold)} :
                r.result # "Ok" => NoEffect(r, GenStorage)
       /\ \E r \in {store(StoreStorage, origin, id, 1, 1)} :
             r.result # "Ok" => NoEffect(r, StoreStorage)
       /\ \E r \in {retrieve(RetrievalStorage, origin, id)} :
             r.result # "Ok" => NoEffect(r, RetrievalStorage)
       /\ \A owner \in FeeCallers :
             \E r \in {shadow_retrieve(ShadowStorage, origin, id, public_of(owner))} :
                r.result # "Ok" => NoEffect(r, ShadowStorage)

\* The call is ignored: it returns Ok and has no effect.
Ignored(r, st) == r.result = "Ok" /\ NoEffect(r, st)
\* The call is rejected: it returns Err and has no effect.
Rejected(r, st) == r.result = "Err" /\ NoEffect(r, st)
IsMember(origin) == IsSome(key_server_index_from_origin(origin))

\* The reports that do not look at the caller before they look for the
\* request: every report but the error reports of generation and store.
ReportsOnNoRequestAreIgnored ==
    /\ \A origin \in FixedAccounts, id \in ServerKeyIds :
          /\ ~ IsSome(ServerKeyGenerationRequests[id]) =>
                \A server_key_public \in Publics :
                   Ignored(on_generated(GenStorage, origin, id, server_key_public),
                           GenStorage)
          /\ ~ IsSome(DocumentKeyStoreRequests[id]) =>
                Ignored(on_stored(StoreStorage, origin, id), StoreStorage)
          /\ ~ IsSome(ServerKeyRetrievalRequests[id]) =>
                /\ \A server_key_public \in Publics, threshold \in Thresholds :
                      Ignored(on_retrieved(RetrievalStorage, origin, id,
                                           server_key_public, threshold),
                              RetrievalStorage)
                /\ Ignored(on_retrieval_error(RetrievalStorage, origin, id),
                           RetrievalStorage)
    /\ \A origin \in FixedAccounts, retrieval_id \in ShadowRetrievalIds :
          ~ IsSome(DocumentKeyShadowRetrievalRequests[retrieval_id]) =>
             /\ \A common_point \in Publics, threshold \in Thresholds :
                   Ignored(on_common_retrieved(ShadowStorage, origin, retrieval_id[1],
                                               retrieval_id[2], common_point, threshold),
                           ShadowStorage)
             /\ \A participants \in ParticipantMasks, decrypted_secret \in Secrets :
                   Ignored(on_personal_retrieved(ShadowStorage, origin, retrieval_id[1],
                                                 retrieval_id[2], participants,
                                                 decrypted_secret),
                           ShadowStorage)
             /\ Ignored(shadow_on_retrieval_error(ShadowStorage, origin, retrieval_id[1],
                                                  retrieval_id[2]),
                        ShadowStorage)

\* C17: for every task type, for value reports and for error reports, a
\* report addressed to a request key that has no pending request returns
\* success, changes no state and emits no notification, whoever sends it.
C17_ReportOnNoRequestIsIgnored ==
    /\ ReportsOnNoRequestAreIgnored
    /\ \A origin \in FixedAccounts, id \in ServerKeyIds :
          /\ ~ IsSome(ServerKeyGenerationRequests[id]) =>
                Ignored(on_generation_error(GenStorage, origin, id), GenStorage)
          /\ ~ IsSome(DocumentKeyStoreRequests[id]) =>
                Ignored(on_store_error(StoreStorage, origin, id), StoreStorage)

\* C17, amended: as above, but an error report of generation or of store
\* is ignored only if its sender is a key server of the current set; from
\* any other sender it is rejected with an error, and changes nothing.
C17_ReportOnNoRequestIsIgnoredOrRejected ==
    /\ ReportsOnNoRequestAreIgnored
    /\ \A origin \in FixedAccounts, id \in ServerKeyIds :
          /\ ~ IsSome(ServerKeyGenerationRequests[id]) =>
                \E r \in {on_generation_error(GenStorage, origin, id)} :
                   IF IsMember(origin) THEN Ignored(r, GenStorage)
                   ELSE Rejected(r, GenStorage)
          /\ ~ IsSome(DocumentKeyStoreRequests[id]) =>
                \E r \in {on_store_error(StoreStorage, origin, id)} :
                   IF IsMember(origin) THEN Ignored(r, StoreStorage)
                   ELSE Rejected(r, StoreStorage)

\* A retrieval request of a set of two key servers has been decided and
\* the last call, made when no request was pending, has deposited no event:
\* it is a report that was ignored.
C17_Witness ==
    /\ \E id \in ServerKeyIds :
          /\ outcome["retrieval"][id] \notin {<< "None" >>, << "Pending" >>}
          /\ ~ IsSome(ServerKeyRetrievalRequests[id])
    /\ ServerKeyRetrievalRequestsKeys = << >>
    /\ events = << >>
    /\ Cardinality(DOMAIN CurrentKeyServers) = 2

\* The reports that look at the caller as soon as they have found the
\* request: every report but the common point of a shadow retrieval.
ReportsOfNonMembersAreRejected ==
    /\ \A origin \in FixedAccounts, id \in ServerKeyIds :
          ~ IsMember(origin) =>
             /\ IsSome(ServerKeyGenerationRequests[id]) =>
                   /\ \A server_key_public \in Publics :
                         Rejected(on_generated(GenStorage, origin, id, server_key_public),
                                  GenStorage)
                   /\ Rejected(on_generation_error(GenStorage, origin, id), GenStorage)
             /\ IsSome(DocumentKeyStoreRequests[id]) =>
                   /\ Rejected(on_stored(StoreStorage, origin, id), StoreStorage)
                   /\ Rejected(on_store_error(StoreStorage, origin, id), StoreStorage)
             /\ IsSome(ServerKeyRetrievalRequests[id]) =>
                   /\ \A server_key_public \in Publics, threshold \in Thresholds :
                         Rejected(on_retrieved(RetrievalStorage, origin, id,
                                               server_key_public, threshold),
                                  RetrievalStorage)
                   /\ Rejected(on_retrieval_error(RetrievalStorage, origin, id),
                               RetrievalStorage)
    /\ \A origin \in FixedAccounts, retrieval_id \in ShadowRetrievalIds :
          (~ IsMember(origin) /\ IsSome(DocumentKeyShadowRetrievalRequests[retrieval_id])) =>
             /\ \A participants \in ParticipantMasks, decrypted_secret \in Secrets :
                   Rejected(on_personal_retrieved(ShadowStorage, origin, retrieval_id[1],
                                                  retrieval_id[2], participants,
                                                  decrypted_secret),
                            ShadowStorage)
             /\ Rejected(shadow_on_retrieval_error(ShadowStorage, origin, retrieval_id[1],
                                                   retrieval_id[2]),
                         ShadowStorage)

\* The shadow retrieval request waits for personal reports.
InPersonalPhase(retrieval_id) ==
    /\ IsSome(DocumentKeyShadowRetrievalRequests[retrieval_id])
    /\ IsSome(Unwrap(DocumentKeyShadowRetrievalRequests[retrieval_id]).threshold)

\* C18: a value report or error report on a pending request from a caller
\* that is not a member of the current set is rejected with an error and
\* changes nothing: no vote is recorded and no notification is emitted.
C18_ReportOfNonMemberIsRejected ==
    /\ ReportsOfNonMembersAreRejected
    /\ \A origin \in FixedAccounts, retrieval_id \in ShadowRetrievalIds :
          (~ IsMember(origin) /\ IsSome(DocumentKeyShadowRetrievalRequests[retrieval_id])) =>
             \A common_point \in Publics, threshold \in Thresholds :
                Rejected(on_common_retrieved(ShadowStorage, origin, retrieval_id[1],
                                             retrieval_id[2], common_point, threshold),
                         ShadowStorage)

\* C18, amended: as above, but the report of a common point on a shadow
\* retrieval request that already waits for personal reports returns
\* success, and changes nothing, whoever sends it.
C18_ReportOfNonMemberIsRejectedOrIgnored ==
    /\ ReportsOfNonMembersAreRejected
    /\ \A origin \in FixedAccounts, retrieval_id \in ShadowRetrievalIds :
          (~ IsMember(origin) /\ IsSome(DocumentKeyShadowRetrievalRequests[retrieval_id])) =>
             \A common_point \in Publics, threshold \in Thresholds :
                \E r \in {on_common_retrieved(ShadowStorage, origin, retrieval_id[1],
                                              retrieval_id[2], common_point, threshold)} :
                   IF InPersonalPhase(retrieval_id) THEN Ignored(r, ShadowStorage)
                   ELSE Rejected(r, ShadowStorage)

\* A shadow retrieval request of a set of three key servers waits for
\* personal reports, none has been delivered, and the last call has deposited
\* no event: a report on the request that was turned down.
C18_Witness ==
    /\ \E retrieval_id \in ShadowRetrievalIds :
          /\ InPersonalPhase(retrieval_id)
          /\ DocumentKeyShadowRetrievalPersonalResponses[retrieval_id] = NoPersonal
          /\ Unwrap(DocumentKeyShadowRetrievalRequests[retrieval_id])
                 .personal_retrieval_errors_count = 0
    /\ events = << >>
    /\ Cardinality(DOMAIN CurrentKeyServers) = 3

\* The indices no member of the set has.
UnusedIndices(set) == (0 .. (SlotCount - 1)) \ {set[id] : id \in DOMAIN set}
\* No two members of the set share an index, and every index is a u8.
DistinctIndices(set) ==
    /\ Cardinality({set[id] : id \in DOMAIN set}) = Cardinality(DOMAIN set)
    /\ \A id \in DOMAIN set : set[id] \in 0 .. (SlotCount - 1)
\* The key servers the owner of the run may add in the state.
OfferedKeyServerIds ==
    AppendKeyServerIds \cup {KEY_SERVER0 + Cardinality(DOMAIN NewKeyServers)}
\* append(set, id) adds the key server at the lowest index that is not used
\* and keeps the other members; it fails if every index is used.
AppendsAtLowestIndex(set, id) ==
    IF UnusedIndices(set) = {}
    THEN ~ CanAppend(set, id)
    ELSE /\ CanAppend(set, id)
         /\ \E added \in {append(set, id)} :
               /\ DOMAIN added = DOMAIN set \cup {id}
               /\ added[id] \in UnusedIndices(set)
               /\ \A index \in UnusedIndices(set) : added[id] <= index
               /\ \A member \in DOMAIN set : added[member] = set[member]

\* C19: adding a participant to a set assigns it the lowest slot index in
\* 0..255 that no member of the set uses, so no two members of one set ever
\* share a slot index; adding to a set that already has 256 members fails
\* and leaves the set unchanged.
C19_AppendAssignsLowestUnusedIndex ==
    /\ [](\A set \in {CurrentKeyServers, NewKeyServers} :
            /\ DistinctIndices(set)
            /\ Cardinality(DOMAIN set) = SlotCount <=> UnusedIndices(set) = {}
            /\ \A id \in OfferedKeyServerIds \ DOMAIN set : AppendsAtLowestIndex(set, id))
    /\ [][\A id \in OfferedKeyServerIds :
            (/\ Cardinality(DOMAIN NewKeyServers) = SlotCount
             /\ add_key_server(OWNER, id))
            => /\ UNCHANGED << CurrentKeyServers, NewKeyServers >>
               /\ events' = << >>]_vars

\* The new set has 256 members, a spare key server was added at index 127
\* after the key server of that index was removed, and the last call, the
\* addition of one more key server, has failed.
C19_Witness ==
    /\ Cardinality(DOMAIN NewKeyServers) = SlotCount
    /\ \E id \in SpareKeyServerIds :
          /\ contains(NewKeyServers, id)
          /\ NewKeyServers[id] = HalfMask - 1
    /\ ~ contains(NewKeyServers, KEY_SERVER0 + HalfMask - 1)
    /\ events = << >>

\* The key server is a member of the current set and the accumulator is of
\* another epoch or does not hold the slot of the key server.
ResponseIsDue(key_server, responses) ==
    /\ key_server \in DOMAIN CurrentKeyServers
    /\ \/ responses.key_servers_change_block # CurrentSetChangeBlock
       \/ CurrentKeyServers[key_server] \notin responses.responded_key_servers_mask

\* C20: for generation, store and retrieval (threshold accumulator), the
\* query is_response_required(participant, key) is true if and only if a
\* request is pending for the key, the participant is a member of the
\* current set, and either the epoch stored in the accumulator differs from
\* the current epoch or the slot of the participant is not set in the
\* responded mask.  The query reads the storage and changes nothing.
C20_ResponseRequired ==
    \A key_server \in MigrationAccounts, id \in ServerKeyIds :
       /\ gen_is_response_required(key_server, id)
             <=> /\ IsSome(ServerKeyGenerationRequests[id])
                 /\ ResponseIsDue(key_server,
                                  Unwrap(ServerKeyGenerationRequests[id]).responses)
       /\ store_is_response_required(key_server, id)
             <=> /\ IsSome(DocumentKeyStoreRequests[id])
                 /\ ResponseIsDue(key_server,
                                  Unwrap(DocumentKeyStoreRequests[id]).responses)
       /\ retrieval_is_response_required(key_server, id)
             <=> /\ IsSome(ServerKeyRetrievalRequests[id])
                 /\ ResponseIsDue(key_server,
                                  Unwrap(ServerKeyRetrievalRequests[id]).threshold_responses)

\* A retrieval request is pending, a member of the current set has its
\* slot set in the threshold accumulator, the set has changed since, and a
\* response of the member is required again.
C20_Witness ==
    \E key_server \in MigrationKeyServerIds, id \in ServerKeyIds :
       /\ IsSome(ServerKeyRetrievalRequests[id])
       /\ contains(CurrentKeyServers, key_server)
       /\ is_set(Unwrap(ServerKeyRetrievalRequests[id]).threshold_responses
                    .responded_key_servers_mask,
                 CurrentKeyServers[key_server])
       /\ Unwrap(ServerKeyRetrievalRequests[id]).threshold_responses
             .key_servers_change_block # CurrentSetChangeBlock
       /\ retrieval_is_response_required(key_server, id)

\* C21: for a pending document key shadow retrieval request and a member p
\* of the current set: while the common part is not confirmed, a response
\* of p is required exactly when p has not reported in the common phase in
\* the current epoch; once the common part is confirmed, a response is
\* required of every member of the current set.  The run never changes
\* CurrentSetChangeBlock, so the reports in votes are those of the current
\* epoch.
C21_ShadowResponseRequired ==
    \A retrieval_id \in ShadowRetrievalIds, p \in DOMAIN CurrentKeyServers :
       IsSome(DocumentKeyShadowRetrievalRequests[retrieval_id]) =>
          IF InPersonalPhase(retrieval_id)
          THEN shadow_is_response_required(p, retrieval_id[1], retrieval_id[2])
          ELSE shadow_is_response_required(p, retrieval_id[1], retrieval_id[2])
                  <=> ~ contains(votes["shadow"][retrieval_id], p)

\* The second set is the first one with the key server added under some
\* index, resp. with the key server removed.
Added(set, result, id) ==
    /\ DOMAIN result = DOMAIN set \cup {id}
    /\ \A k \in DOMAIN set : result[k] = set[k]
Removed(set, result, id) ==
    /\ DOMAIN result = DOMAIN set \ {id}
    /\ \A k \in DOMAIN result : result[k] = set[k]

\* C22: add_key_server and remove_key_server by the owner change the current
\* and the new set while the set is not initialized, and only the new set
\* (current set, migration set and CurrentSetChangeBlock unchanged) once it
\* is; the same calls by another caller, the addition of a key server that
\* is in the set, the removal of one that is not, and
\* complete_initialization of an initialized set are rejected and leave the
\* whole set storage unchanged.  The set a call edits is the new set; until
\* the initialization is completed the current set is equal to it.
C22_SetEdits ==
    /\ [](~ IsInitialized => CurrentKeyServers = NewKeyServers)
    /\ [][/\ \A caller \in MigrationAccounts, id \in MigrationKeyServerIds :
               add_key_server(caller, id) =>
                  IF caller = OWNER /\ id \notin DOMAIN NewKeyServers
                  THEN /\ Added(NewKeyServers, NewKeyServers', id)
                       /\ IF IsInitialized
                          THEN CurrentKeyServers' = CurrentKeyServers
                          ELSE Added(CurrentKeyServers, CurrentKeyServers', id)
                       /\ UNCHANGED << IsInitialized, CurrentSetChangeBlock,
                                       MigrationKeyServers, MigrationId,
                                       MigrationConfirmations >>
                  ELSE UNCHANGED setVars /\ events' = << >>
          /\ \A caller \in MigrationAccounts, id \in MigrationKeyServerIds :
               remove_key_server(caller, id) =>
                  IF caller = OWNER /\ id \in DOMAIN NewKeyServers
                  THEN /\ Removed(NewKeyServers, NewKeyServers', id)
                       /\ IF IsInitialized
                          THEN CurrentKeyServers' = CurrentKeyServers
                          ELSE Removed(CurrentKeyServers, CurrentKeyServers', id)
                       /\ UNCHANGED << IsInitialized, CurrentSetChangeBlock,
                                       MigrationKeyServers, MigrationId,
                                       MigrationConfirmations >>
                  ELSE UNCHANGED setVars /\ events' = << >>
          /\ \A caller \in MigrationAccounts :
               complete_initialization(caller) =>
                  IF caller = OWNER /\ ~ IsInitialized
                  THEN /\ IsInitialized'
                       /\ UNCHANGED << CurrentSetChangeBlock, CurrentKeyServers,
                                       NewKeyServers, MigrationKeyServers,
                                       MigrationId, MigrationConfirmations >>
                  ELSE UNCHANGED setVars /\ events' = << >>
         ]_vars

\* The owner has added a key server to the new set of an initialized set
\* while a migration is active: the key server is neither in the current nor
\* in the migration set.
C22_Witness ==
    \E id \in MigrationKeyServerIds :
       /\ IsInitialized
       /\ events = << Event("KeyServerAdded", id, 0, 0) >>
       /\ id \in DOMAIN NewKeyServers
       /\ id \notin DOMAIN CurrentKeyServers
       /\ id \notin DOMAIN MigrationKeyServers
       /\ IsSome(MigrationId)

\* P holds of every call of insert_response that a report of a member of the
\* current set on a pending request can make: the unanimity services with
\* the threshold N - 1, the threshold agreement of the retrieval and the
\* common part of the shadow retrieval with N / 2, the key agreement of the
\* retrieval with the reported threshold.
EveryEngineCall(P(_, _, _, _, _)) ==
    \A origin \in DOMAIN CurrentKeyServers, id \in ServerKeyIds :
      LET index == CurrentKeyServers[origin] IN
      /\ IsSome(ServerKeyGenerationRequests[id]) =>
           \A v \in Publics :
             P(index, U8(key_servers_count - 1),
               Unwrap(ServerKeyGenerationRequests[id]).responses,
               ServerKeyGenerationResponses[id], v)
      /\ IsSome(DocumentKeyStoreRequests[id]) =>
             P(index, U8(key_servers_count - 1),
               Unwrap(DocumentKeyStoreRequests[id]).responses,
               DocumentKeyStoreResponses[id], 0)
      /\ IsSome(ServerKeyRetrievalRequests[id]) =>
           \A v \in Publics, t \in Thresholds :
             /\ P(index, key_servers_count \div 2,
                  Unwrap(ServerKeyRetrievalRequests[id]).threshold_responses,
                  ServerKeyRetrievalThresholdResponses[id], t)
             /\ P(index, t,
                  Unwrap(ServerKeyRetrievalRequests[id]).responses,
                  ServerKeyRetrievalResponses[id], v)
      /\ \A requester \in FeePayers :
           IsSome(DocumentKeyShadowRetrievalRequests[<< id, requester >>]) =>
             \A v \in Publics, t \in Thresholds :
               P(index, key_servers_count \div 2,
                 Unwrap(DocumentKeyShadowRetrievalRequests[<< id, requester >>]).common_responses,
                 DocumentKeyShadowRetrievalCommonResponses[<< id, requester >>],
                 << v, t >>)

\* The report is the first one of its index in the epoch.
FirstReport(key_server_index, responses) ==
    \/ /\ responses.responded_key_servers_count # 0
       /\ responses.key_servers_change_block # CurrentSetChangeBlock
    \/ ~ is_set(responses.responded_key_servers_mask, key_server_index)
\* The largest support on record before the report is counted.
LeadingSupport(responses) ==
    IF /\ responses.responded_key_servers_count # 0
       /\ responses.key_servers_change_block # CurrentSetChangeBlock
    THEN 0
    ELSE responses.max_response_support
\* The support of the reported response once the report is counted.
SupportAfter(key_server_index, threshold, responses, table, response) ==
    insert_response(key_server_index, threshold, responses, table, response)
        .support[response]
ConfirmedBySupport(key_server_index, threshold, responses, table, response) ==
    FirstReport(key_server_index, responses) =>
       (insert_response(key_server_index, threshold, responses, table, response)
            .support_result = "Confirmed"
        <=> threshold <= SupportAfter(key_server_index, threshold, responses,
                                      table, response) - 1)
ConfirmedByLeadingSupport(key_server_index, threshold, responses, table, response) ==
    FirstReport(key_server_index, responses) =>
       (insert_response(key_server_index, threshold, responses, table, response)
            .support_result = "Confirmed"
        <=> /\ threshold <= SupportAfter(key_server_index, threshold, responses,
                                         table, response) - 1
            /\ SupportAfter(key_server_index, threshold, responses, table, response)
                 >= LeadingSupport(responses))
OvertakenSupport(key_server_index, threshold, responses, table, response) ==
    /\ FirstReport(key_server_index, responses)
    /\ threshold <= SupportAfter(key_server_index, threshold, responses,
                                 table, response) - 1
    /\ SupportAfter(key_server_index, threshold, responses, table, response)
          < LeadingSupport(responses)
    /\ insert_response(key_server_index, threshold, responses, table, response)
          .support_result = "Unconfirmed"

\* C23: for the first report of an index, insert_response returns Confirmed
\* if and only if the support s of the reported response, this report
\* counted, satisfies threshold <= s - 1, for every threshold a caller
\* passes.
C23_ConfirmedExactlyWhenSupported == EveryEngineCall(ConfirmedBySupport)

\* C23, amended: for the first report of an index, insert_response returns
\* Confirmed if and only if the support s of the reported response, this
\* report counted, satisfies threshold <= s - 1 and is not below the largest
\* support on record before the report.
C23_ConfirmedExactlyWhenSupportedAndLeading ==
    EveryEngineCall(ConfirmedByLeadingSupport)

\* A retrieval request is pending, and the report of a key and a threshold
\* by a member that has not reported would give the key a support above
\* the threshold but below the support of another key: the key agreement
\* returns Unconfirmed.
C23_Witness ==
    \E origin \in DOMAIN CurrentKeyServers, id \in ServerKeyIds,
       v \in Publics, t \in Thresholds :
       /\ IsSome(ServerKeyRetrievalRequests[id])
       /\ OvertakenSupport(CurrentKeyServers[origin], t,
                           Unwrap(ServerKeyRetrievalRequests[id]).responses,
                           ServerKeyRetrievalResponses[id], v)

\* The server key the retrieval request remembers once the report is
\* processed, the request still pending.
RememberedAfter(origin, id, server_key_public, threshold) ==
    Unwrap(on_retrieved(RetrievalStorage, origin, id, server_key_public, threshold)
              .st.requests[id]).server_key_with_max_threshold
StillPending(origin, id, server_key_public, threshold) ==
    IsSome(on_retrieved(RetrievalStorage, origin, id, server_key_public, threshold)
              .st.requests[id])
\* The report is the first one of the key server; the remembered server key
\* has the largest support, and the reported one, another key, ties it.
TiesTheLeader(origin, id, server_key_public, threshold) ==
    LET request == Unwrap(ServerKeyRetrievalRequests[id])
    IN /\ FirstReport(CurrentKeyServers[origin], request.responses)
       /\ FirstReport(CurrentKeyServers[origin], request.threshold_responses)
       /\ threshold # INVALID_THRESHOLD
       /\ request.responses.responded_key_servers_count # 0
       /\ request.responses.key_servers_change_block = CurrentSetChangeBlock
       /\ server_key_public # request.server_key_with_max_threshold
       /\ support(ServerKeyRetrievalResponses[id], request.server_key_with_max_threshold)
             = request.responses.max_response_support
       /\ support(ServerKeyRetrievalResponses[id], server_key_public) + 1
             = request.responses.max_response_support

\* C24: tie-break.  The server key a retrieval request remembers for the
\* early stabilization is the first one that reached the largest support: a
\* server key reported later that only ties that support does not replace
\* it.
C24_TyingKeyDoesNotReplace ==
    \A origin \in DOMAIN CurrentKeyServers, id \in ServerKeyIds,
       v \in Publics, t \in Thresholds :
       (/\ IsSome(ServerKeyRetrievalRequests[id])
        /\ StillPending(origin, id, v, t)
        /\ TiesTheLeader(origin, id, v, t))
          => RememberedAfter(origin, id, v, t)
                = Unwrap(ServerKeyRetrievalRequests[id]).server_key_with_max_threshold

\* C24, amended: the server key a retrieval request remembers is the key of
\* the latest report with a valid threshold for which the threshold
\* agreement returned Unconfirmed and whose key had the largest support
\* once the report was processed; a server key reported later by such a
\* report replaces the remembered one also when it only ties the largest
\* support.
C24_LatestLeadingKeyIsRemembered ==
    \A origin \in DOMAIN CurrentKeyServers, id \in ServerKeyIds,
       v \in Publics, t \in Thresholds :
       (IsSome(ServerKeyRetrievalRequests[id]) /\ StillPending(origin, id, v, t)) =>
          LET request == Unwrap(ServerKeyRetrievalRequests[id])
              after == on_retrieved(RetrievalStorage, origin, id, v, t).st
              threshold_support ==
                  insert_response(CurrentKeyServers[origin], key_servers_count \div 2,
                                  request.threshold_responses,
                                  ServerKeyRetrievalThresholdResponses[id], t)
                      .support_result
          IN RememberedAfter(origin, id, v, t) =
                IF /\ threshold_support = "Unconfirmed"
                   /\ t # INVALID_THRESHOLD
                   /\ support(after.responses[id], v)
                         = Unwrap(after.requests[id]).responses.max_response_support
                THEN v
                ELSE request.server_key_with_max_threshold

\* A retrieval request remembers a server key with the largest support, and
\* the first report of another key server would bring another server key to
\* the same support: that key is remembered instead.
C24_Witness ==
    \E origin \in DOMAIN CurrentKeyServers, id \in ServerKeyIds,
       v \in Publics, t \in Thresholds :
       /\ IsSome(ServerKeyRetrievalRequests[id])
       /\ StillPending(origin, id, v, t)
       /\ TiesTheLeader(origin, id, v, t)
       /\ RememberedAfter(origin, id, v, t) = v

\* The accumulators of the pending requests.
Accumulators ==
    {Unwrap(ServerKeyGenerationRequests[id]).responses :
        id \in {i \in ServerKeyIds : IsSome(ServerKeyGenerationRequests[i])}}
    \cup {Unwrap(DocumentKeyStoreRequests[id]).responses :
        id \in {i \in ServerKeyIds : IsSome(DocumentKeyStoreRequests[i])}}
    \cup {Unwrap(ServerKeyRetrievalRequests[id]).responses :
        id \in {i \in ServerKeyIds : IsSome(ServerKeyRetrievalRequests[i])}}
    \cup {Unwrap(ServerKeyRetrievalRequests[id]).threshold_responses :
        id \in {i \in ServerKeyIds : IsSome(ServerKeyRetrievalRequests[i])}}
    \cup {Unwrap(DocumentKeyShadowRetrievalRequests[id]).common_responses :
        id \in {i \in ShadowRetrievalIds : IsSome(DocumentKeyShadowRetrievalRequests[i])}}

\* C25: in every reachable state every accumulator of every pending request
\* has responded_key_servers_count equal to the number of bits set in
\* responded_key_servers_mask, and max_response_support at most
\* responded_key_servers_count.
C25_CountIsPopulationOfMask ==
    \A responses \in Accumulators :
       /\ responses.responded_key_servers_count
             = Cardinality(responses.responded_key_servers_mask)
       /\ responses.max_response_support <= responses.responded_key_servers_count

\* Two key servers have reported different values on a pending request and
\* a third has repeated its report or not reported: the accumulator counts
\* two reports and the largest support is one.
C25_Witness ==
    \E responses \in Accumulators :
       /\ responses.responded_key_servers_count = 2
       /\ responses.max_response_support = 1
       /\ Cardinality(DOMAIN CurrentKeyServers) >= 3

\* The call counts a report and goes on to the subtraction
\* key_servers_count - responded_key_servers_count, which does not go below
\* zero.
SubtractionInRange(key_server_index, threshold, responses, table, response) ==
    (/\ FirstReport(key_server_index, responses)
     /\ insert_response(key_server_index, threshold, responses, table, response)
           .support_result # "Confirmed")
       => insert_response(key_server_index, threshold, responses, table, response)
             .responses.responded_key_servers_count
          <= Cardinality(DOMAIN CurrentKeyServers)

\* C26: in every reachable state, also between a change of the current set
\* and the next report, every accumulator of every pending request has
\* responded_key_servers_count at most the size of the current set, so the
\* subtraction key_servers_count - responded_key_servers_count of
\* insert_response never goes below zero.
C26_CountWithinCurrentSet ==
    /\ \A responses \in Accumulators :
          responses.responded_key_servers_count
             <= Cardinality(DOMAIN CurrentKeyServers)
    /\ EveryEngineCall(SubtractionInRange)


\* C27. Within one membership epoch a slot index of the current set is never
\* bound to two different participant identities: while CurrentSetChangeBlock
\* keeps its value, a change of the current set gives no index that one key
\* server holds to another key server.
SameEpoch == CurrentSetChangeBlock' = CurrentSetChangeBlock

C27_SlotIsBoundOncePerEpoch ==
    [][SameEpoch =>
          \A id1 \in DOMAIN CurrentKeyServers, id2 \in DOMAIN CurrentKeyServers' :
              CurrentKeyServers'[id2] = CurrentKeyServers[id1]
                 => id2 = id1]_vars


\* C28. In the document key store the support of a report is never
\* Impossible: whatever key server of the current set reports on whatever
\* pending request, insert_response answers Unconfirmed or Confirmed.
StoredSupport(origin, id) ==
    insert_response(Unwrap(key_server_index_from_origin(origin)),
                    U8(key_servers_count - 1),
                    Unwrap(DocumentKeyStoreRequests[id]).responses,
                    DocumentKeyStoreResponses[id],
                    0).support_result

C28_StoreIsNeverImpossible ==
    \A origin \in DOMAIN CurrentKeyServers, id \in ServerKeyIds :
        IsSome(DocumentKeyStoreRequests[id])
           => /\ StoredSupport(origin, id) \in {"Unconfirmed", "Confirmed"}
              /\ on_stored(StoreStorage, origin, id).result = "Ok"

\* After a migration a request is pending whose accumulator has counted, in
\* the current epoch, as many reports as the current set has members: the set
\* has shrunk since.  A key server of the current set has not reported yet.
C28_Witness ==
    \E origin \in DOMAIN CurrentKeyServers, id \in ServerKeyIds :
        /\ IsInitialized
        /\ CurrentSetChangeBlock > 0
        /\ IsSome(DocumentKeyStoreRequests[id])
        /\ LET responses == Unwrap(DocumentKeyStoreRequests[id]).responses IN
           /\ responses.responded_key_servers_count >= key_servers_count
           /\ CurrentKeyServers[origin] \notin responses.responded_key_servers_mask
           /\ responses.key_servers_change_block = CurrentSetChangeBlock


\* The support stage A gives to the threshold of a report on a pending
\* retrieval request, and the support stage B gives to its server key.
ThresholdSupport(origin, id, threshold) ==
    insert_response(CurrentKeyServers[origin],
                    key_servers_count \div 2,
                    Unwrap(ServerKeyRetrievalRequests[id]).threshold_responses,
                    ServerKeyRetrievalThresholdResponses[id],
                    threshold).support_result
KeySupport(origin, id, server_key_public, threshold) ==
    insert_response(CurrentKeyServers[origin],
                    threshold,
                    Unwrap(ServerKeyRetrievalRequests[id]).responses,
                    ServerKeyRetrievalResponses[id],
                    server_key_public).support_result
\* The report makes the retrieval fail.
FatalToRetrieval(origin, id, server_key_public, threshold) ==
    \/ ThresholdSupport(origin, id, threshold) = "Impossible"
    \/ /\ ThresholdSupport(origin, id, threshold) = "Confirmed"
       /\ KeySupport(origin, id, server_key_public, threshold) = "Impossible"
\* What the call answers: the request is deleted and the failure published.
RetrievalFailed(answer, id) ==
    /\ answer.result = "Ok"
    /\ answer.st.requests[id] = None
    /\ \A i \in 1 .. Len(answer.st.keys) : answer.st.keys[i] # id
    /\ answer.events = << Event("ServerKeyRetrievalError", id, 0, 0) >>

\* C29. A server key retrieval request is deleted and ServerKeyRetrievalError
\* is published at the report at which stage A, the agreement on the
\* threshold, is Impossible, whatever stage B is, and at the report at which
\* stage A is Confirmed and stage B, the agreement on the server key under
\* that threshold, is Impossible.  An error report is the report of the
\* invalid threshold.
C29_ImpossibleStageFailsRetrieval ==
    \A origin \in DOMAIN CurrentKeyServers, id \in ServerKeyIds :
        IsSome(ServerKeyRetrievalRequests[id]) =>
           /\ \A server_key_public \in Publics, threshold \in Thresholds :
                 FatalToRetrieval(origin, id, server_key_public, threshold)
                    => RetrievalFailed(on_retrieved(RetrievalStorage, origin, id,
                                                    server_key_public, threshold), id)
           /\ FatalToRetrieval(origin, id, 0, INVALID_THRESHOLD)
                 => RetrievalFailed(on_retrieval_error(RetrievalStorage, origin, id), id)

\* Both cases in one state: one report would make stage A Impossible while
\* stage B is not, another one would confirm the threshold and make stage B
\* Impossible.
C29_Witness ==
    \E origin \in DOMAIN CurrentKeyServers, id \in ServerKeyIds :
        /\ IsSome(ServerKeyRetrievalRequests[id])
        /\ \E server_key_public \in Publics, threshold \in Thresholds :
              /\ ThresholdSupport(origin, id, threshold) = "Impossible"
              /\ KeySupport(origin, id, server_key_public, threshold) # "Impossible"
        /\ \E server_key_public \in Publics, threshold \in Thresholds :
              /\ ThresholdSupport(origin, id, threshold) = "Confirmed"
              /\ KeySupport(origin, id, server_key_public, threshold) = "Impossible"


\* The key servers whose vote on the request is an error report.
ErrorVoters(task, id) == Voters(task, id, Error(<< 0, INVALID_THRESHOLD >>))

\* C30. In the server key retrieval and in the common phase of the shadow
\* retrieval an error report is a vote and no error of the call: the call of
\* a key server of the current set on a pending request returns Ok; once
\* N/2 + 1 key servers have voted with an error report the request has
\* failed; while the only votes are the error reports of at most N/2 key
\* servers the request is pending.
C30_ErrorReportsAreVotes ==
    /\ \A origin \in DOMAIN CurrentKeyServers, id \in ServerKeyIds :
          /\ IsSome(ServerKeyRetrievalRequests[id])
                => on_retrieval_error(RetrievalStorage, origin, id).result = "Ok"
          /\ \A requester \in FeePayers :
                LET request == DocumentKeyShadowRetrievalRequests[<< id, requester >>]
                IN IsSome(request) /\ ~ IsSome(Unwrap(request).threshold)
                      => shadow_on_retrieval_error(ShadowStorage, origin,
                                                   id, requester).result = "Ok"
    /\ \A task \in {"retrieval", "shadow"} : \A id \in TaskIds(task) :
          /\ Cardinality(ErrorVoters(task, id)) >= Majority
                => outcome[task][id] = << "Failure" >>
          /\ ( /\ outcome[task][id] # << "None" >>
               /\ ErrorVoters(task, id) = DOMAIN votes[task][id]
               /\ Cardinality(ErrorVoters(task, id)) <= key_servers_count \div 2 )
                => Pending(task, id)

\* A request of 4 key servers has failed at the third error report, no other
\* report having been delivered.
C30_Witness ==
    /\ key_servers_count = 4
    /\ \E task \in {"retrieval", "shadow"} : \E id \in TaskIds(task) :
          /\ ErrorVoters(task, id) = DOMAIN votes[task][id]
          /\ Cardinality(ErrorVoters(task, id)) = Majority
          /\ outcome[task][id] = << "Failure" >>


\* The report of the key server confirms the common data of the request.
ConfirmsCommon(origin, id, requester, common_point, threshold) ==
    LET request == Unwrap(DocumentKeyShadowRetrievalRequests[<< id, requester >>])
    IN /\ ~ IsSome(request.threshold)
       /\ contains(CurrentKeyServers, origin)
       /\ insert_response(CurrentKeyServers[origin],
                          key_servers_count \div 2,
                          request.common_responses,
                          DocumentKeyShadowRetrievalCommonResponses[<< id, requester >>],
                          << common_point, threshold >>).support_result = "Confirmed"
\* The answer of on_common_retrieved to the confirming report.
CommonIsFixed(answer, id, requester, common_point, threshold) ==
    LET request == Unwrap(DocumentKeyShadowRetrievalRequests[<< id, requester >>])
    IN /\ answer.result = "Ok"
       /\ IsSome(answer.st.requests[<< id, requester >>])
       /\ Unwrap(answer.st.requests[<< id, requester >>]).threshold = Some(threshold)
       /\ answer.st.keys = DocumentKeyShadowRetrievalRequestsKeys
       /\ answer.events =
             << Event("DocumentKeyCommonRetrieved", id, requester,
                      << common_point, threshold >>),
                Event("DocumentKeyPersonalRetrievalRequested", id,
                      request.requester_public, 0) >>
CommonRetrievedIn(evs, id, requester) ==
    \E i \in 1 .. Len(evs) :
        /\ evs[i].id = id
        /\ \/ evs[i].name = "DocumentKeyCommonRetrieved" /\ evs[i].a = requester
           \/ /\ evs[i].name = "DocumentKeyPersonalRetrievalRequested"
              /\ evs[i].a = public_of(requester)

\* C31. The common report that is Confirmed sets the threshold of the shadow
\* retrieval request to the reported one, keeps the request pending and
\* deposits DocumentKeyCommonRetrieved and DocumentKeyPersonalRetrievalRequested
\* and nothing else; every later common report on the request changes no
\* storage and deposits nothing, so the threshold of a request never changes
\* once it is set and the two events are deposited only by a report on a
\* request whose threshold is not set.
C31_CommonIsFixedOnce ==
    /\ [](\A id \in ServerKeyIds, requester \in FeePayers :
            IsSome(DocumentKeyShadowRetrievalRequests[<< id, requester >>]) =>
              \A origin \in Accounts, common_point \in Publics, threshold \in Thresholds :
                LET request == Unwrap(DocumentKeyShadowRetrievalRequests[<< id, requester >>])
                    answer == on_common_retrieved(ShadowStorage, origin, id, requester,
                                                  common_point, threshold)
                IN /\ ConfirmsCommon(origin, id, requester, common_point, threshold)
                      => CommonIsFixed(answer, id, requester, common_point, threshold)
                   /\ IsSome(request.threshold) => answer = Done(ShadowStorage, << >>))
    /\ [][\A id \in ServerKeyIds, requester \in FeePayers :
            LET retrieval_id == << id, requester >>
                before == DocumentKeyShadowRetrievalRequests[retrieval_id]
                after == DocumentKeyShadowRetrievalRequests'[retrieval_id]
            IN /\ (IsSome(before) /\ IsSome(Unwrap(before).threshold) /\ IsSome(after))
                    => Unwrap(after).threshold = Unwrap(before).threshold
               /\ CommonRetrievedIn(events', id, requester)
                    => /\ IsSome(before) /\ ~ IsSome(Unwrap(before).threshold)
                       /\ IsSome(after) /\ IsSome(Unwrap(after).threshold)]_vars

\* The common data of a request has just been confirmed by the second of two
\* equal reports: the threshold is set and the two events are deposited.
C31_Witness ==
    \E id \in ServerKeyIds, common_point \in Publics, threshold \in Thresholds :
        LET request == DocumentKeyShadowRetrievalRequests[<< id, REQUESTER1 >>]
        IN /\ IsSome(request)
           /\ Unwrap(request).threshold = Some(threshold)
           /\ Unwrap(request).common_responses.responded_key_servers_count >= 2
           /\ Len(events) = 2
           /\ events[1] = Event("DocumentKeyCommonRetrieved", id, REQUESTER1,
                                << common_point, threshold >>)


\* The personal report is one the claim accepts: the threshold of the request
\* is set, the key server has its bit in the participants it reports, and it
\* has not reported to the group of these participants and this secret.
PersonalIsDue(origin, id, requester, participants, decrypted_secret) ==
    LET retrieval_id == << id, requester >>
        request == Unwrap(DocumentKeyShadowRetrievalRequests[retrieval_id])
        group == personal_get(DocumentKeyShadowRetrievalPersonalResponses[retrieval_id],
                              << participants, decrypted_secret >>)
    IN /\ IsSome(request.threshold)
       /\ contains(CurrentKeyServers, origin)
       /\ CurrentKeyServers[origin] \in participants
       /\ CurrentKeyServers[origin] \notin group.participants

\* C32. A personal report on a pending shadow retrieval request is accepted
\* if and only if the threshold of the request is set, the key server is one
\* of the participants it reports and it has not reported to the group of
\* these participants and this secret.  A rejected report returns an error,
\* changes no storage and deposits nothing; an accepted one deposits
\* DocumentKeyPersonalRetrieved and nothing else.
C32_PersonalReportAccepted ==
    \A id \in ServerKeyIds, requester \in FeePayers :
      IsSome(DocumentKeyShadowRetrievalRequests[<< id, requester >>]) =>
        \A origin \in Accounts, participants \in ParticipantMasks,
           decrypted_secret \in Secrets :
          LET answer == on_personal_retrieved(ShadowStorage, origin, id, requester,
                                              participants, decrypted_secret)
          IN IF PersonalIsDue(origin, id, requester, participants, decrypted_secret)
             THEN /\ answer.result = "Ok"
                  /\ answer.events =
                        << Event("DocumentKeyPersonalRetrieved", id, requester,
                                 decrypted_secret) >>
             ELSE answer = Failed(ShadowStorage)

\* The key server of index 0 has reported to the two groups of a pending
\* request, to the second one just now.
C32_Witness ==
    \E id \in ServerKeyIds, decrypted_secret \in Secrets :
        LET retrieval_id == << id, REQUESTER1 >>
            groups == DocumentKeyShadowRetrievalPersonalResponses[retrieval_id]
        IN /\ IsSome(DocumentKeyShadowRetrievalRequests[retrieval_id])
           /\ \A participants \in ParticipantMasks :
                 0 \in personal_get(groups, << participants, decrypted_secret >>).participants
           /\ Cardinality(ParticipantMasks) = 2
           /\ events = << Event("DocumentKeyPersonalRetrieved", id, REQUESTER1,
                                decrypted_secret) >>


\* What on_retrieval_error answers to the key server in the personal phase
\* of the request, as the claim has it.
PersonalErrorCounted(answer, origin, id, requester) ==
    LET retrieval_id == << id, requester >>
        request == Unwrap(DocumentKeyShadowRetrievalRequests[retrieval_id])
        index == CurrentKeyServers[origin]
        count == request.personal_retrieval_errors_count + 1
    IN IF index \in request.personal_retrieval_errors_mask
       THEN answer = Done(ShadowStorage, << >>)
       ELSE IF count < (key_servers_count \div 2) + 1
       THEN answer = Done([ShadowStorage EXCEPT !.requests[retrieval_id] =
                              Some([request EXCEPT
                                      !.personal_retrieval_errors_mask = @ \cup {index},
                                      !.personal_retrieval_errors_count = count])],
                          << >>)
       ELSE /\ answer.result = "Ok"
            /\ answer.st.requests[retrieval_id] = None
            /\ ~ Listed(answer.st.keys, retrieval_id)
            /\ answer.st.common[retrieval_id] = NoSupport
            /\ answer.st.personal[retrieval_id] = NoPersonal
            /\ answer.events =
                  << Event("DocumentKeyShadowRetrievalError", id, requester, 0) >>

\* C33. In the personal phase of a shadow retrieval the error reports are
\* counted once for each index, in a counter of their own: the count is the
\* number of the indices that reported an error and, on a fixed set, at most
\* N/2 while the request is pending; a repeated error report changes nothing,
\* an error report that leaves the count below N/2 + 1 keeps the request
\* with its common accumulator, and the error report that brings the count
\* to N/2 + 1 deletes the request and deposits
\* DocumentKeyShadowRetrievalError.
C33_PersonalErrorsAreCounted ==
    \A id \in ServerKeyIds, requester \in FeePayers :
      LET retrieval_id == << id, requester >>
          request == Unwrap(DocumentKeyShadowRetrievalRequests[retrieval_id])
      IN IsSome(DocumentKeyShadowRetrievalRequests[retrieval_id]) =>
           /\ request.personal_retrieval_errors_count
                 = Cardinality(request.personal_retrieval_errors_mask)
           /\ request.personal_retrieval_errors_count <= key_servers_count \div 2
           /\ ~ IsSome(request.threshold) => request.personal_retrieval_errors_count = 0
           /\ IsSome(request.threshold) =>
                \A origin \in DOMAIN CurrentKeyServers :
                   PersonalErrorCounted(
                       shadow_on_retrieval_error(ShadowStorage, origin, id, requester),
                       origin, id, requester)

\* A request of 3 key servers has been deleted by the error report of the
\* second key server in its personal phase.
C33_Witness ==
    \E id \in ServerKeyIds :
        /\ key_servers_count = 3
        /\ outcome["shadow"][<< id, REQUESTER1 >>][1] = "Success"
        /\ DocumentKeyShadowRetrievalRequests[<< id, REQUESTER1 >>] = None
        /\ events = << Event("DocumentKeyShadowRetrievalError", id, REQUESTER1, 0) >>


\* C34. generate accepts a threshold only if threshold + 1, as a natural
\* number, is at most the number of key servers: on a fixed set every pending
\* generation request has such a threshold.
C34_AcceptedThresholdFitsTheSet ==
    \A id \in ServerKeyIds :
        IsSome(ServerKeyGenerationRequests[id]) =>
           Unwrap(ServerKeyGenerationRequests[id]).threshold + 1
              <= Cardinality(DOMAIN CurrentKeyServers)


\* C35. A migration that has started is completed once every key server of
\* the migration set has confirmed it, which they do if none withholds its
\* confirmation for ever; while the migration is active no call changes the
\* migration set or the migration, and the confirmations only grow.
C35_MigrationCompletes ==
    /\ IsSome(MigrationId) ~> ~ IsSome(MigrationId)
    /\ [][(IsSome(MigrationId) /\ IsSome(MigrationId')) =>
             /\ MigrationId' = MigrationId
             /\ MigrationKeyServers' = MigrationKeyServers
             /\ MigrationConfirmations \subseteq MigrationConfirmations']_vars

\* A migration has just been completed, and the owner had changed the new
\* set while it was active.
C35_Witness ==
    /\ ~ IsSome(MigrationId)
    /\ events = << Event("MigrationCompleted", 0, 0, 0) >>
    /\ NewKeyServers # CurrentKeyServers
    /\ Cardinality(DOMAIN CurrentKeyServers) = 2


\* The key servers whose vote on the retrieval request is a report of the key,
\* with whatever threshold, and no error report.
KeyReporters(id, key) ==
    {s \in DOMAIN votes["retrieval"][id] :
        /\ votes["retrieval"][id][s].kind = "value"
        /\ votes["retrieval"][id][s].value[1] = key}
\* The threshold that the majority of the key servers has voted for.
ConfirmedThresholds(id) ==
    {t \in Thresholds :
        Cardinality(ThresholdVoters(votes["retrieval"][id], t)) >= Majority}

\* C36. A server key that a retrieval request publishes has been reported, by
\* on_retrieved, by at least T + 1 key servers of the current set, T being the
\* threshold that the majority has reported.
C36_PublishedKeyIsSupported ==
    \A id \in ServerKeyIds, key \in Publics :
        events = << Event("ServerKeyRetrieved", id, key, 0) >> =>
           \E t \in ConfirmedThresholds(id) :
               Cardinality(KeyReporters(id, key)) >= t + 1


\* C37. When the common data of a shadow retrieval request is confirmed, the
\* published common point and threshold have been reported through
\* on_common_retrieved by at least N/2 + 1 distinct key servers of the current
\* set: error reports, which vote for the default point and the threshold
\* 0xFF, never contribute to a confirmation.
C37_ConfirmedCommonIsReported ==
    \A id \in ServerKeyIds, requester \in FeePayers :
    \A value \in Publics \X Thresholds :
        (\E i \in 1 .. Len(events) :
            events[i] = Event("DocumentKeyCommonRetrieved", id, requester, value))
        => Cardinality(Voters("shadow", << id, requester >>, Value(value))) >= Majority


\* C38. Every step that changes the membership of the current set, which is
\* an addition or a removal while the set is not initialized or the
\* finalization of a migration, changes CurrentSetChangeBlock in the same
\* step.
C38_MembershipChangeChangesEpoch ==
    [][CurrentKeyServers' # CurrentKeyServers
          => CurrentSetChangeBlock' # CurrentSetChangeBlock]_vars


\* The events among evs that say how the request has ended. The shadow
\* retrieval has one such event, the failure: DocumentKeyCommonRetrieved and
\* DocumentKeyPersonalRetrieved deliver parts of the result.
TerminalEvents(evs, names, id) ==
    {i \in 1 .. Len(evs) : evs[i].name \in names /\ evs[i].id = id}
\* Nothing of the request is left in the storage of its service.
Gone(st, id) ==
    /\ st.requests[id] = None
    /\ ~ Listed(st.keys, id)
    /\ st.responses[id] = NoSupport
RetrievalGone(st, id) ==
    /\ Gone(st, id)
    /\ st.threshold_responses[id] = NoSupport
ShadowGone(st, retrieval_id) ==
    /\ st.requests[retrieval_id] = None
    /\ ~ Listed(st.keys, retrieval_id)
    /\ st.common[retrieval_id] = NoSupport
    /\ st.personal[retrieval_id] = NoPersonal
\* The step deposits at most one of the named events on the request, and
\* only on a request that is pending before the step.
EndsOnce(names, id, before, after) ==
    /\ Cardinality(TerminalEvents(events', names, id)) <= 1
    /\ TerminalEvents(events', names, id) # {} => IsSome(before) /\ after = None

\* C39. A step deposits at most one terminal event on a request, and only on
\* a request that is pending: the step deletes the request, and a request that
\* is not pending has no queue entry and no support, so a report after the
\* terminal event deposits no other one until the request is submitted again.
C39_OneTerminalEvent ==
    /\ [](/\ \A id \in ServerKeyIds :
               /\ ServerKeyGenerationRequests[id] = None => Gone(GenStorage, id)
               /\ DocumentKeyStoreRequests[id] = None => Gone(StoreStorage, id)
               /\ ServerKeyRetrievalRequests[id] = None
                     => RetrievalGone(RetrievalStorage, id)
          /\ \A retrieval_id \in ShadowRetrievalIds :
               DocumentKeyShadowRetrievalRequests[retrieval_id] = None
                  => ShadowGone(ShadowStorage, retrieval_id))
    /\ [][/\ \A id \in ServerKeyIds :
               /\ EndsOnce({"ServerKeyGenerated", "ServerKeyGenerationError"}, id,
                           ServerKeyGenerationRequests[id],
                           ServerKeyGenerationRequests'[id])
               /\ EndsOnce({"DocumentKeyStored", "DocumentKeyStoreError"}, id,
                           DocumentKeyStoreRequests[id],
                           DocumentKeyStoreRequests'[id])
               /\ EndsOnce({"ServerKeyRetrieved", "ServerKeyRetrievalError"}, id,
                           ServerKeyRetrievalRequests[id],
                           ServerKeyRetrievalRequests'[id])
               /\ EndsOnce({"DocumentKeyShadowRetrievalError"}, id,
                           DocumentKeyShadowRetrievalRequests[<< id, REQUESTER1 >>],
                           DocumentKeyShadowRetrievalRequests'[<< id, REQUESTER1 >>])
         ]_vars

\* A generation request has ended with its key and a later call has deposited
\* nothing: nothing of the request is left.
C39_Witness ==
    \E id \in ServerKeyIds, server_key_public \in Publics :
        /\ outcome["generation"][id] = << "Success", server_key_public >>
        /\ Cardinality(Voters("generation", id, Value(server_key_public))) >= 2
        /\ events = << >>
        /\ Gone(GenStorage, id)


\* C40. In the server key retrieval on a fixed set of key servers, a request
\* on which every key server of the current set has reported, a key or an
\* error, is not pending: it has ended with a published key or a failure.
C40_AllReportsEndRetrieval ==
    \A id \in ServerKeyIds :
        DOMAIN CurrentKeyServers \subseteq DOMAIN votes["retrieval"][id]
           => /\ ~ Pending("retrieval", id)
              /\ ServerKeyRetrievalRequests[id] = None

====
